---------------------------- MODULE Spec2Model ----------------------------
(***************************************************************************)
(* The off-chain Facilitator of P06-Full (facilitator.py): its polling     *)
(* loop, the three event handlers, the swap it triggers, the finality      *)
(* check and the finalization sequence, run against a ledger that mines    *)
(* blocks and emits SettlementCreated / FundsPulled / VaultFunded events.  *)
(* Beside it the seller's HTTP server of P06-Full (server.py, with the     *)
(* payment requirement of x402_types.py), which validates a payment proof  *)
(* and creates the settlement on the ledger.                               *)
(*                                                                         *)
(* The ledger is the external collaborator: which events a block holds,    *)
(* and whether an RPC call or a transaction succeeds, is chosen            *)
(* nondeterministically.  Everything the Facilitator does with them is     *)
(* translated from the code.                                               *)
(***************************************************************************)
EXTENDS Integers, Sequences, FiniteSets, TLC

(***************************************************************************)
(* Bounds of the model.                                                    *)
(***************************************************************************)
\* highest block the ledger mines
MaxBlock == 3
\* most events in one block
MaxPerBlock == 2
\* most events the ledger emits in a run
MaxEvents == 3
\* how many times the wall clock advances (by half an hour)
MaxTicks == 1
\* how many requests the server answers in a run
MaxRequests == 1
\* the requests the P02 server answers in a run
MaxOrderRequests == 3
\* the transactions sent with the facilitator key in a run
MaxSubmitted == 3
\* the submissions the server answers in a run with the Facilitator
MaxPurchases == 2

\* config.FINALITY_CONFIRMATIONS: int(os.getenv(..., "10")); the model runs
\* the deployment configured with 1 confirmation.
FINALITY_CONFIRMATIONS == 1

(***************************************************************************)
(* Values of the ledger.                                                   *)
(***************************************************************************)
\* settlementId values (bytes32 on chain), as sequences of hex digits
SettlementIds == { <<"a", "1">>, <<"b", "2">> }

\* the args of the SettlementCreated event of a settlement (amounts in token
\* units); the vault derives the settlementId from them, so an id has one
\* set of args
CreatedArgs(settlementId) ==
    IF settlementId = <<"a", "1">>
    THEN [client |-> "buyer1", seller |-> "seller", assetToken |-> "YPS",
          assetAmount |-> 50, requiredUSDC |-> 55, maxEURC |-> 60]
    ELSE [client |-> "buyer2", seller |-> "seller", assetToken |-> "YPS",
          assetAmount |-> 70, requiredUSDC |-> 77, maxEURC |-> 90]

EventKinds == {"SettlementCreated", "FundsPulled", "VaultFunded"}

\* what the vault contract may emit in a block
Emissions == [kind : EventKinds, settlementId : SettlementIds]

\* the sequences of at most n emissions
RECURSIVE EmissionSeqs(_)
EmissionSeqs(n) ==
    IF n = 0 THEN { <<>> }
    ELSE EmissionSeqs(n - 1)
         \cup { Append(s, e) : s \in { t \in EmissionSeqs(n - 1) : Len(t) = n - 1 },
                               e \in Emissions }

Min(a, b) == IF a < b THEN a ELSE b

(***************************************************************************)
(* Python's numbers.  An int has no width; TLC's integers have 32 bits, so *)
(* a natural number is kept as its digits in base 2^15, lowest first, with *)
(* no leading zero digit (zero is the empty sequence).                     *)
(***************************************************************************)
Base == 2 ^ 15

Max(a, b) == IF a < b THEN b ELSE a

\* the digits of a natural number TLC can hold
RECURSIVE Big(_)
Big(n) == IF n = 0 THEN << >> ELSE << n % Base >> \o Big(n \div Base)

\* the natural number of digits, when TLC can hold it
RECURSIVE Small(_)
Small(a) == IF a = << >> THEN 0 ELSE a[1] + Base * Small(Tail(a))

RECURSIVE Trim(_)
Trim(a) ==
    IF a = << >> THEN a
    ELSE IF a[Len(a)] = 0 THEN Trim(SubSeq(a, 1, Len(a) - 1)) ELSE a

Digit(a, i) == IF i <= Len(a) THEN a[i] ELSE 0

RECURSIVE AddFrom(_, _, _, _)
AddFrom(a, b, i, carry) ==
    IF i > Max(Len(a), Len(b))
    THEN IF carry = 0 THEN << >> ELSE << carry >>
    ELSE LET s == Digit(a, i) + Digit(b, i) + carry
         IN << s % Base >> \o AddFrom(a, b, i + 1, s \div Base)

BigAdd(a, b) == AddFrom(a, b, 1, 0)

RECURSIVE SubFrom(_, _, _, _)
SubFrom(a, b, i, borrow) ==
    IF i > Len(a) THEN << >>
    ELSE LET d == a[i] - Digit(b, i) - borrow
         IN << (d + Base) % Base >> \o SubFrom(a, b, i + 1, IF d < 0 THEN 1 ELSE 0)

\* a - b for a >= b
BigSub(a, b) == Trim(SubFrom(a, b, 1, 0))

RECURSIVE LessFrom(_, _, _)
LessFrom(a, b, i) ==
    IF i = 0 THEN FALSE
    ELSE IF a[i] # b[i] THEN a[i] < b[i] ELSE LessFrom(a, b, i - 1)

BigLess(a, b) ==
    IF Len(a) # Len(b) THEN Len(a) < Len(b) ELSE LessFrom(a, b, Len(a))

RECURSIVE MulFrom(_, _, _, _)
MulFrom(a, d, i, carry) ==
    IF i > Len(a)
    THEN IF carry = 0 THEN << >> ELSE << carry >>
    ELSE LET p == a[i] * d + carry
         IN << p % Base >> \o MulFrom(a, d, i + 1, p \div Base)

\* a * d for one digit d
MulDigit(a, d) == IF d = 0 THEN << >> ELSE MulFrom(a, d, 1, 0)

RECURSIVE BigMul(_, _)
BigMul(a, b) ==
    IF a = << >> \/ b = << >> THEN << >>
    ELSE LET rest == BigMul(a, Tail(b))
         IN BigAdd(MulDigit(a, b[1]),
                   IF rest = << >> THEN rest ELSE << 0 >> \o rest)

RECURSIVE DigitBits(_)
DigitBits(d) == IF d = 0 THEN 0 ELSE 1 + DigitBits(d \div 2)

\* int.bit_length()
BitLength(a) ==
    IF a = << >> THEN 0 ELSE 15 * (Len(a) - 1) + DigitBits(a[Len(a)])

\* bit i of a, bit 0 the lowest
Bit(a, i) == (Digit(a, (i \div 15) + 1) \div (2 ^ (i % 15))) % 2

\* a << k
ShiftLeft(a, k) ==
    IF a = << >> THEN a
    ELSE [i \in 1..(k \div 15) |-> 0] \o MulDigit(a, 2 ^ (k % 15))

\* a >> k
ShiftRight(a, k) ==
    LET q == k \div 15
        r == k % 15
        hi == IF q >= Len(a) THEN << >> ELSE SubSeq(a, q + 1, Len(a))
    IN Trim([i \in 1..Len(hi) |->
               (hi[i] \div (2 ^ r)) + (Digit(hi, i + 1) % (2 ^ r)) * (2 ^ (15 - r))])

\* a & ((1 << k) - 1)
LowBits(a, k) ==
    LET q == k \div 15
        r == k % 15
    IN IF q >= Len(a) THEN a
       ELSE Trim(SubSeq(a, 1, q) \o << a[q + 1] % (2 ^ r) >>)

\* the largest digit d with b * d <= r, for r < b * Base and b's highest
\* digit at least Base / 2: the two highest digits of r over the highest of
\* b is d, or above it by at most 2
QuotientDigit(r, b) ==
    LET n == Len(b)
        est == Min((Digit(r, n + 1) * Base + Digit(r, n)) \div b[n], Base - 1)
    IN IF ~BigLess(r, MulDigit(b, est)) THEN est
       ELSE IF ~BigLess(r, MulDigit(b, est - 1)) THEN est - 1
       ELSE est - 2

\* long division, from digit i of a down: quotient and remainder so far
RECURSIVE DivFrom(_, _, _, _, _)
DivFrom(a, b, i, q, r) ==
    IF i = 0 THEN [q |-> Trim(q), r |-> r]
    ELSE LET r2 == Trim(<< a[i] >> \o r)
             d == QuotientDigit(r2, b)
         IN DivFrom(a, b, i - 1, << d >> \o q, BigSub(r2, MulDigit(b, d)))

\* divmod(a, b) for b > 0, the remainder as a flag: both are shifted until
\* b's highest digit is at least Base / 2, which leaves the quotient as it is
BigDivMod(a, b) ==
    LET s == 15 - DigitBits(b[Len(b)])
        d == DivFrom(ShiftLeft(a, s), ShiftLeft(b, s), Len(ShiftLeft(a, s)), << >>, << >>)
    IN [q |-> d.q, exact |-> d.r = << >>]

\* an int: sign and magnitude
PyInt(neg, mag) == [neg |-> neg /\ mag # << >>, mag |-> mag]

(***************************************************************************)
(* Python's float (IEEE 754 binary64) in the range the amounts stay in:    *)
(* (-1)^neg * m * 2^e with m of at most 53 bits, rounded to nearest, ties  *)
(* to even.  Exponent range and subnormals are not reached.                *)
(***************************************************************************)
\* the float nearest to n * 2^e (plus a little, when inexact says that the
\* exact value lies above n * 2^e by less than one unit of n)
RoundToFloat(neg, n, e, inexact) ==
    LET len == BitLength(n)
        s == len - 53
    IN IF s <= 0 THEN [neg |-> neg /\ n # << >>, m |-> n, e |-> e]
       ELSE LET q == ShiftRight(n, s)
                rem == LowBits(n, s)
                half == ShiftLeft(Big(1), s - 1)
                up == \/ BigLess(half, rem)
                      \/ rem = half /\ (inexact \/ Bit(q, 0) = 1)
            IN [neg |-> neg, m |-> IF up THEN BigAdd(q, Big(1)) ELSE q, e |-> e + s]

\* float(n) of an int
FloatOfInt(n) == RoundToFloat(n.neg, n.mag, 0, FALSE)

\* a / b of two ints (true division, correctly rounded), b # 0
TrueDiv(a, b) ==
    LET s == Max(0, 55 + BitLength(b.mag) - BitLength(a.mag))
        d == BigDivMod(ShiftLeft(a.mag, s), b.mag)
    IN RoundToFloat(a.neg # b.neg, d.q, 0 - s, ~d.exact)

\* x / y of two floats (correctly rounded), y # 0
FloatDiv(x, y) ==
    LET s == Max(0, 55 + BitLength(y.m) - BitLength(x.m))
        d == BigDivMod(ShiftLeft(x.m, s), y.m)
    IN RoundToFloat(x.neg # y.neg, d.q, x.e - y.e - s, ~d.exact)

\* x * y of two floats
FloatMul(x, y) == RoundToFloat(x.neg # y.neg, BigMul(x.m, y.m), x.e + y.e, FALSE)

\* int(x): towards zero
IntOfFloat(x) ==
    PyInt(x.neg, IF x.e >= 0 THEN ShiftLeft(x.m, x.e) ELSE ShiftRight(x.m, 0 - x.e))

\* the float a decimal literal num/den stands for (correctly rounded)
Literal(num, den) == TrueDiv(PyInt(FALSE, Big(num)), PyInt(FALSE, Big(den)))

\* 10 ** k as an int
RECURSIVE Pow10(_)
Pow10(k) == IF k = 0 THEN Big(1) ELSE MulDigit(Pow10(k - 1), 10)

\* an int as a TLC integer, when TLC can hold it
IntValue(n) == IF n.neg THEN 0 - Small(n.mag) ELSE Small(n.mag)

(***************************************************************************)
(* The amounts of P06-Full: x402_types.py computes the required amount of  *)
(* the 402 response, server.py computes it again for a submission, with    *)
(* the most the buyer must offer.                                          *)
(***************************************************************************)
\* a TLC integer as an int
PyIntOf(i) == PyInt(i < 0, Big(IF i < 0 THEN 0 - i ELSE i))

\* a < b of two ints
IntLess(a, b) ==
    IF a.neg # b.neg THEN a.neg
    ELSE IF a.neg THEN BigLess(b.mag, a.mag) ELSE BigLess(a.mag, b.mag)

\* k * 10 ** p as an int
Units(k, p) == PyInt(FALSE, BigMul(Big(k), Pow10(p)))

\* the asset amounts requests ask for, in the asset's smallest unit (18
\* decimals): none, minus one token, 0.95, 50 and 100 tokens
AssetAmounts ==
    { PyIntOf(0), PyInt(TRUE, Pow10(18)), Units(95, 16), Units(50, 18),
      Units(100, 18) }

\* price_per_unit_usdc = 1.10
PricePerUnitUsdc == Literal(110, 100)

\* create_x402_payment_requirement: required_usdc_smallest
RequiredUsdcSmallest(asset_amount, price_per_unit_usdc) ==
    LET asset_human == TrueDiv(asset_amount, PyInt(FALSE, Pow10(18)))
        required_usdc_human == FloatMul(asset_human, price_per_unit_usdc)
    IN IntOfFloat(FloatMul(required_usdc_human, FloatOfInt(PyInt(FALSE, Pow10(6)))))

\* handle_payment_submitted: required_usdc
RequiredUsdc(asset_amount) ==
    LET asset_human == TrueDiv(asset_amount, PyInt(FALSE, Pow10(18)))
        required_usdc_human == FloatMul(asset_human, PricePerUnitUsdc)
    IN IntOfFloat(FloatMul(required_usdc_human, FloatOfInt(PyInt(FALSE, Pow10(6)))))

\* handle_payment_submitted: max_eurc = int(required_usdc * 1.10 * 1.1)
MaxEurc(required_usdc) ==
    IntOfFloat(FloatMul(FloatMul(FloatOfInt(required_usdc), Literal(110, 100)),
                        Literal(11, 10)))

\* OTCClient._get_eur_usd_rate: the default, 1.10
EurUsdRate == Literal(110, 100)

\* OTCClient.buy_asset: the max_eurc_budget it computes when none is given,
\* from the required_amount of the 402 response
MaxEurcBudget(required_amount, eur_usd_rate) ==
    LET required_usdc == TrueDiv(required_amount, PyInt(FALSE, Pow10(6)))
        required_eurc == FloatDiv(required_usdc, eur_usd_rate)
        max_eurc_with_buffer == FloatMul(required_eurc, Literal(115, 100))
    IN IntOfFloat(FloatMul(max_eurc_with_buffer, FloatOfInt(PyInt(FALSE, Pow10(6)))))

\* the amounts for each asset amount the requests ask for: the operators
\* above, evaluated once (the variable quotes holds this table)
Quotes ==
    [a \in AssetAmounts |->
       LET required_amount == RequiredUsdcSmallest(a, PricePerUnitUsdc)
           required_usdc == RequiredUsdc(a)
       IN [required_amount |-> required_amount,
           required_usdc |-> required_usdc,
           max_eurc |-> MaxEurc(required_usdc),
           max_eurc_budget |-> MaxEurcBudget(required_amount, EurUsdRate)]]

(***************************************************************************)
(* The amounts of P02-x402 server/server.py: the 'amount' query parameter  *)
(* is a number of tokens, turned into the asset's smallest unit through a  *)
(* float; the required amount is computed in integers.                     *)
(***************************************************************************)
\* Config.ASSET_PRICE_USDC: 100 USDC per token
ASSET_PRICE_USDC == PyIntOf(100 * 10 ^ 6)
\* Config.PAYMENT_DEADLINE_SECONDS
PAYMENT_DEADLINE_SECONDS == 3600

\* the 'amount' query parameters: the default "1", half a token, and text
\* float() raises ValueError for
AmountStrings == {"1", "0.5", "many"}
NumberStrings == {"1", "0.5"}

\* float(asset_amount_str)
FloatOfString(str) == IF str = "1" THEN Literal(1, 1) ELSE Literal(1, 2)

\* asset_amount = int(float(asset_amount_str) * 10**18)
AssetAmountWei(str) ==
    IntOfFloat(FloatMul(FloatOfString(str), FloatOfInt(PyInt(FALSE, Pow10(18)))))

\* required_usdc = asset_amount * Config.ASSET_PRICE_USDC // (10**18), of an
\* asset amount that is not negative
RequiredUsdcOfOrder(asset_amount) ==
    PyInt(FALSE, BigDivMod(BigMul(asset_amount.mag, ASSET_PRICE_USDC.mag),
                           Pow10(18)).q)

\* the two amounts for each 'amount' parameter: the operators above,
\* evaluated once (the variable order_quotes holds this table)
OrderQuotes ==
    [str \in NumberStrings |->
       [asset_amount |-> AssetAmountWei(str),
        required_usdc |-> RequiredUsdcOfOrder(AssetAmountWei(str))]]

VARIABLES
    head,                 \* the ledger's block number (w3.eth.block_number)
    log,                  \* the events of the blocks the loop has not scanned yet
    budget,               \* how many events the ledger may still emit in this run
    pc,                   \* where the loop is
    last_block,           \* _run_event_loop's last_block
    current_block,        \* _run_event_loop's current_block
    queue,                \* the entries of the current filter not handled yet
    pending_settlements,  \* Facilitator.pending_settlements
    funded_settlements,   \* Facilitator.funded_settlements
    funded_order,         \* the insertion order of funded_settlements' keys
    to_finalize,          \* _check_finality's settlements_to_finalize
    scan_i,               \* _check_finality's position in funded_settlements.items()
    sent,                 \* the transactions the step just taken has submitted
    handed,               \* history: the ids _finalize_settlement was called for
    ever_settled,         \* history: the ids whose status was set to settled
    swapped,              \* history: the ids an executeSwap was submitted for
    last_applied,         \* history: the event last applied in this _process_blocks call
    in_order,             \* history: see InOrder
    applied,              \* history: (block, log index) of the events handled in
                          \* this _process_blocks call
    swap_failed,          \* history: the ids an executeSwap failed for
    now,                  \* time.time(), in seconds
    active_settlements,   \* server.py's active_settlements
    response,             \* the HTTP response the server gave last
    request,              \* history: the HTTP request that response answers
    served,               \* history: how many requests the server has answered
    quotes,               \* the amounts the server computes for each asset amount
    orders,               \* P02 server.py's orders
    order_quotes,         \* the amounts the P02 server computes for each 'amount'
    running,              \* Facilitator.running
    order_head,           \* the block number of the ledger the P02 tracker watches
    order_log,            \* its events in the blocks the tracker has not polled yet
    order_budget,         \* how many events that ledger may still emit in this run
    tracker_pc,           \* where the P02 tracker's watch loop is
    tracker_block,        \* watch's current_block
    tracker_queue,        \* watch's `events`, those not processed yet
    tracker_events,       \* P02 EventTracker.events
    tracker_orders,       \* P02 EventTracker.orders
    tracker_last,         \* history: the event processed last in this poll window
    tx_count,             \* w3.eth.get_transaction_count of the facilitator key's address
    mempool,              \* the transactions of that address sent and not mined
    signers,              \* where each caller of send_transaction is
    submitted,            \* history: the transactions sent, with what was unmined then
    settlements,          \* P06 tracker.py's settlements
    ui_events,            \* P06 tracker.py's events
    track_pc,             \* where the P06 tracker's thread is
    track_last_block,     \* _track_events' last_block
    track_current_block,  \* _track_events' current_block
    track_kind,           \* which of _process_blocks' four filters is at work
    track_queue,          \* the entries of that filter not handled yet
    api_data,             \* what /api/data answered last
    accepted              \* history: the max_payment_amount of the proof accepted
                          \* for each settlement the server created

vars == << head, log, budget, pc, last_block, current_block, queue,
           pending_settlements, funded_settlements, funded_order, to_finalize,
           scan_i, sent, handed, ever_settled, swapped, last_applied, in_order,
           applied, swap_failed, orders, order_quotes, now, active_settlements,
           response, request, served, quotes, running, order_head, order_log,
           order_budget, tracker_pc, tracker_block, tracker_queue, tracker_events,
           tracker_orders, tracker_last, tx_count, mempool, signers, submitted,
           settlements, ui_events, track_pc, track_last_block, track_current_block,
           track_kind, track_queue, api_data, accepted >>

\* the P06 tracker: its thread, the two globals and the Flask reader
ui == << settlements, ui_events, track_pc, track_last_block, track_current_block,
         track_kind, track_queue, api_data >>

\* the facilitator key's account and the callers of send_transaction
signing == << tx_count, mempool, signers, submitted >>

\* the P02 tracker and the ledger it watches
watch == << order_head, order_log, order_budget, tracker_pc, tracker_block,
            tracker_queue, tracker_events, tracker_orders, tracker_last >>

chain == << head, log, budget >>
history == << handed, ever_settled, swapped, last_applied, in_order, applied,
             swap_failed >>
registry == << pending_settlements, funded_settlements, funded_order >>
\* the state of the HTTP servers and their clock, and of the trackers
web == << now, active_settlements, response, request, served, quotes, orders,
         order_quotes, watch, signing, ui, accepted >>

(***************************************************************************)
(* Python's dict.                                                          *)
(***************************************************************************)
EmptyDict == << >>
HasKey(d, k) == k \in DOMAIN d
Put(d, k, v) == [x \in DOMAIN d \cup {k} |-> IF x = k THEN v ELSE d[x]]
Pop(d, k) == [x \in DOMAIN d \ {k} |-> d[x]]
\* the key order of a dict after d[k] = v: a new key goes last, a key the
\* dict holds keeps its place
OrderAfterPut(order, k) ==
    IF \E i \in 1..Len(order) : order[i] = k THEN order ELSE Append(order, k)

(***************************************************************************)
(* settlement_id = args['settlementId'].hex() and its way back,            *)
(* bytes.fromhex(settlement_id[2:]).  HexBytes.hex() of the web3 release   *)
(* the code is written for gives the digits behind a "0x" prefix.          *)
(***************************************************************************)
Hex(bytes) == <<"0", "x">> \o bytes
\* settlement_id[2:]
DropTwo(str) == SubSeq(str, 3, Len(str))
\* bytes.fromhex: the digits as bytes
BytesFromHex(digits) == digits

(***************************************************************************)
(* The ledger.                                                             *)
(***************************************************************************)
\* emission e as the event of log index i in block b; the vault reports the
\* block it funded in as the VaultFunded event's blockNumber argument
Stamp(e, b, i) ==
    [kind |-> e.kind, settlementId |-> e.settlementId,
     args |-> CASE e.kind = "SettlementCreated" -> CreatedArgs(e.settlementId)
               [] e.kind = "VaultFunded" -> [blockNumber |-> b]
               [] OTHER -> [eurcAmount |-> CreatedArgs(e.settlementId).maxEURC],
     blockNumber |-> b, logIndex |-> i]

\* a block is mined, holding some events.  The Facilitator reads the ledger's
\* height in LoopIteration and in CheckFinalityScan only, and a filter never
\* reaches past current_block: a block mined at any other moment is seen at
\* the next of these two, so blocks are mined there.
MineBlock ==
    /\ head < MaxBlock
    /\ pc \in {"loop", "check_finality"}
    /\ \E es \in EmissionSeqs(Min(MaxPerBlock, budget)) :
         /\ head' = head + 1
         /\ log' = log \o [i \in 1..Len(es) |-> Stamp(es[i], head + 1, i)]
         /\ budget' = budget - Len(es)
    /\ sent' = << >>
    /\ UNCHANGED << web, running, pc, last_block, current_block, queue, registry,
                    to_finalize, scan_i, history >>

\* create_filter(fromBlock, toBlock).get_all_entries() of one event kind:
\* the events of that kind in the range, in (block, log index) order
GetAllEntries(kind, fromBlock, toBlock) ==
    SelectSeq(log, LAMBDA e : /\ e.kind = kind
                              /\ e.blockNumber >= fromBlock
                              /\ e.blockNumber <= toBlock)

\* is_block_finalized with > for >=: a block counts as final one block late
IsBlockFinalized_Strict(block_number) ==
    (head - block_number) > FINALITY_CONFIRMATIONS

\* web3_utils.is_block_finalized, with get_block_number() read as head
IsBlockFinalized(block_number) ==
    (head - block_number) >= FINALITY_CONFIRMATIONS

(***************************************************************************)
(* Transactions.  send_transaction may raise before anything is sent;      *)
(* wait_for_transaction may raise (timeout) or return a receipt whose      *)
(* status is 1 or not.                                                     *)
(***************************************************************************)
Tx(fn, args, result) == [fn |-> fn, args |-> args, result |-> result]

SwapOutcomes == {"send_raises", "wait_raises", "failed", "ok"}

\* _execute_swap with the two amounts in each other's place
SwapArgs_Swapped(settlement_id, settlement) ==
    << BytesFromHex(DropTwo(settlement_id)), settlement.required_usdc,
       settlement.max_eurc >>

\* the executeSwap call of _execute_swap for a settlement record
SwapArgs(settlement_id, settlement) ==
    << BytesFromHex(DropTwo(settlement_id)), settlement.max_eurc,
       settlement.required_usdc >>

\* _execute_swap sending executeSwap once more when the first one was mined
\* with a failing status
ExecuteSwap_Retry(pending, settlement_id, outcome) ==
    IF ~HasKey(pending, settlement_id) THEN << >>
    ELSE CASE outcome = "send_raises" -> << >>
           [] outcome = "wait_raises" ->
                << Tx("executeSwap", SwapArgs(settlement_id, pending[settlement_id]), "timeout") >>
           [] outcome = "failed" ->
                << Tx("executeSwap", SwapArgs(settlement_id, pending[settlement_id]), "reverted"),
                   Tx("executeSwap", SwapArgs(settlement_id, pending[settlement_id]), "ok") >>
           [] OTHER ->
                << Tx("executeSwap", SwapArgs(settlement_id, pending[settlement_id]), "ok") >>

\* the transactions _execute_swap submits
ExecuteSwap(pending, settlement_id, outcome) ==
    IF ~HasKey(pending, settlement_id) THEN << >>
    ELSE CASE outcome = "send_raises" -> << >>
           [] outcome = "wait_raises" ->
                << Tx("executeSwap", SwapArgs(settlement_id, pending[settlement_id]), "timeout") >>
           [] outcome = "failed" ->
                << Tx("executeSwap", SwapArgs(settlement_id, pending[settlement_id]), "reverted") >>
           [] OTHER ->
                << Tx("executeSwap", SwapArgs(settlement_id, pending[settlement_id]), "ok") >>

FinalizeOutcomes ==
    {"confirm_send_raises", "confirm_wait_raises", "confirm_failed",
     "execute_send_raises", "execute_wait_raises", "execute_failed", "settled"}

FinalityArgs(settlement_id) == << BytesFromHex(DropTwo(settlement_id)) >>

\* _finalize_settlement going on to executeSettlement whatever the receipt
\* of confirmFinality says
FinalizeTxs_ExecuteAnyway(settlement_id, outcome) ==
    LET a == FinalityArgs(settlement_id)
        confirmed == << Tx("confirmFinality", a, "ok") >>
    IN CASE outcome = "confirm_send_raises" -> << >>
         [] outcome = "confirm_wait_raises" -> << Tx("confirmFinality", a, "timeout") >>
         [] outcome = "confirm_failed" ->
              << Tx("confirmFinality", a, "reverted"), Tx("executeSettlement", a, "ok") >>
         [] outcome = "execute_send_raises" -> confirmed
         [] outcome = "execute_wait_raises" ->
              Append(confirmed, Tx("executeSettlement", a, "timeout"))
         [] outcome = "execute_failed" ->
              Append(confirmed, Tx("executeSettlement", a, "reverted"))
         [] OTHER -> Append(confirmed, Tx("executeSettlement", a, "ok"))

\* the transactions _finalize_settlement submits
FinalizeTxs(settlement_id, outcome) ==
    LET a == FinalityArgs(settlement_id)
        confirmed == << Tx("confirmFinality", a, "ok") >>
    IN CASE outcome = "confirm_send_raises" -> << >>
         [] outcome = "confirm_wait_raises" -> << Tx("confirmFinality", a, "timeout") >>
         [] outcome = "confirm_failed" -> << Tx("confirmFinality", a, "reverted") >>
         [] outcome = "execute_send_raises" -> confirmed
         [] outcome = "execute_wait_raises" ->
              Append(confirmed, Tx("executeSettlement", a, "timeout"))
         [] outcome = "execute_failed" ->
              Append(confirmed, Tx("executeSettlement", a, "reverted"))
         [] OTHER -> Append(confirmed, Tx("executeSettlement", a, "ok"))

(***************************************************************************)
(* The handlers.                                                           *)
(***************************************************************************)
\* the record _handle_settlement_created stores
CreatedRecord(event) ==
    [client |-> event.args.client,
     seller |-> event.args.seller,
     asset_token |-> event.args.assetToken,
     asset_amount |-> event.args.assetAmount,
     required_usdc |-> event.args.requiredUSDC,
     max_eurc |-> event.args.maxEURC,
     status |-> "created",
     block |-> event.blockNumber]

\* pending_settlements after _handle_settlement_created
PendingAfterCreated(pending, event) ==
    Put(pending, Hex(event.settlementId), CreatedRecord(event))

\* `if settlement_id in self.pending_settlements` of _handle_funds_pulled
FundsPulledApplies(pending, settlement_id) == HasKey(pending, settlement_id)

\* _handle_funds_pulled writing the status without the membership test, as
\* pending_settlements.setdefault(settlement_id, {})['status'] = 'funds_pulled'
PendingAfterFundsPulled_Upsert(pending, event) ==
    LET settlement_id == Hex(event.settlementId)
    IN IF FundsPulledApplies(pending, settlement_id)
       THEN [pending EXCEPT ![settlement_id].status = "funds_pulled"]
       ELSE Put(pending, settlement_id, [status |-> "funds_pulled"])

\* pending_settlements after _handle_funds_pulled
PendingAfterFundsPulled(pending, event) ==
    LET settlement_id == Hex(event.settlementId)
    IN IF FundsPulledApplies(pending, settlement_id)
       THEN [pending EXCEPT ![settlement_id].status = "funds_pulled"]
       ELSE pending

\* the transactions _handle_funds_pulled submits (through _execute_swap)
TxsOfFundsPulled(pending, event, outcome) ==
    LET settlement_id == Hex(event.settlementId)
    IN IF FundsPulledApplies(pending, settlement_id)
       THEN ExecuteSwap(PendingAfterFundsPulled(pending, event), settlement_id, outcome)
       ELSE << >>

\* `if settlement_id in self.pending_settlements` of _handle_vault_funded
VaultFundedApplies(pending, settlement_id) == HasKey(pending, settlement_id)

\* _handle_vault_funded clearing the amount still owed once the vault is
\* funded
FundedRecord_Cleared(settlement, event) ==
    ("funded_block" :> event.args.blockNumber)
        @@ [settlement EXCEPT !.status = "funded", !.required_usdc = 0]

\* the record _handle_vault_funded moves to funded_settlements (funded_at,
\* the wall-clock time of the call, is left out: nothing reads it)
FundedRecord(settlement, event) ==
    ("funded_block" :> event.args.blockNumber)
        @@ [settlement EXCEPT !.status = "funded"]

\* pending_settlements after _handle_vault_funded
PendingAfterVaultFunded(pending, event) ==
    LET settlement_id == Hex(event.settlementId)
    IN IF VaultFundedApplies(pending, settlement_id)
       THEN Pop(pending, settlement_id)
       ELSE pending

\* funded_settlements after _handle_vault_funded
FundedAfterVaultFunded(pending, funded, event) ==
    LET settlement_id == Hex(event.settlementId)
    IN IF VaultFundedApplies(pending, settlement_id)
       THEN Put(funded, settlement_id, FundedRecord(pending[settlement_id], event))
       ELSE funded

\* the key order of funded_settlements after _handle_vault_funded
OrderAfterVaultFunded(pending, order, event) ==
    LET settlement_id == Hex(event.settlementId)
    IN IF VaultFundedApplies(pending, settlement_id)
       THEN OrderAfterPut(order, settlement_id)
       ELSE order

\* no event applied yet in this _process_blocks call
NoEvent == [kind |-> "none"]

\* the two dicts after the handler of event's kind has handled it
Handled(dicts, event) ==
    CASE event.kind = "SettlementCreated" ->
           [pending |-> PendingAfterCreated(dicts.pending, event),
            funded |-> dicts.funded]
      [] event.kind = "FundsPulled" ->
           [pending |-> PendingAfterFundsPulled(dicts.pending, event),
            funded |-> dicts.funded]
      [] OTHER ->
           [pending |-> PendingAfterVaultFunded(dicts.pending, event),
            funded |-> FundedAfterVaultFunded(dicts.pending, dicts.funded, event)]

\* the two dicts after the events of a sequence were handled one after the
\* other, in the sequence's order
RECURSIVE HandledAll(_, _)
HandledAll(dicts, events) ==
    IF events = << >> THEN dicts
    ELSE HandledAll(Handled(dicts, Head(events)), Tail(events))

\* history for the comparison with in-order delivery: the events of the range
\* of a _process_blocks call, of all kinds, in (block, log index) order, and
\* the two dicts that handling them in that order would leave
InOrder(fromBlock, toBlock) ==
    LET events == SelectSeq(log, LAMBDA e : /\ e.blockNumber >= fromBlock
                                            /\ e.blockNumber <= toBlock)
    IN [events |-> events,
        dicts |-> HandledAll([pending |-> pending_settlements,
                              funded |-> funded_settlements], events)]

NoWindow == [events |-> << >>]

HandleSettlementCreated ==
    /\ pc = "handle_created"
    /\ queue # << >>
    /\ LET event == Head(queue)
       IN /\ pending_settlements' = PendingAfterCreated(pending_settlements, event)
          /\ last_applied' = event
          /\ applied' = applied \cup {<< event.blockNumber, event.logIndex >>}
    /\ queue' = Tail(queue)
    /\ sent' = << >>
    /\ UNCHANGED << web, running, chain, pc, last_block, current_block,
                    funded_settlements, funded_order, to_finalize, scan_i, handed, ever_settled,
                    swapped, in_order, swap_failed >>

HandleFundsPulled ==
    /\ pc = "handle_pulled"
    /\ queue # << >>
    /\ LET event == Head(queue)
       IN /\ pending_settlements' = PendingAfterFundsPulled(pending_settlements, event)
          /\ \E outcome \in SwapOutcomes :
               /\ sent' = TxsOfFundsPulled(pending_settlements, event, outcome)
               /\ swap_failed' =
                    IF /\ FundsPulledApplies(pending_settlements,
                                             Hex(event.settlementId))
                       /\ outcome # "ok"
                    THEN swap_failed \cup {Hex(event.settlementId)}
                    ELSE swap_failed
          /\ swapped' = IF sent' # << >>
                        THEN swapped \cup {Hex(event.settlementId)}
                        ELSE swapped
          /\ last_applied' = event
          /\ applied' = applied \cup {<< event.blockNumber, event.logIndex >>}
    /\ queue' = Tail(queue)
    /\ UNCHANGED << web, running, chain, pc, last_block, current_block,
                    funded_settlements, funded_order, to_finalize, scan_i, handed, ever_settled,
                    in_order >>

HandleVaultFunded ==
    /\ pc = "handle_funded"
    /\ queue # << >>
    /\ LET event == Head(queue)
       IN /\ pending_settlements' = PendingAfterVaultFunded(pending_settlements, event)
          /\ funded_settlements' =
               FundedAfterVaultFunded(pending_settlements, funded_settlements, event)
          /\ funded_order' =
               OrderAfterVaultFunded(pending_settlements, funded_order, event)
          /\ last_applied' = event
          /\ applied' = applied \cup {<< event.blockNumber, event.logIndex >>}
    /\ queue' = Tail(queue)
    /\ sent' = << >>
    /\ UNCHANGED << web, running, chain, pc, last_block, current_block, to_finalize,
                    scan_i, handed, ever_settled, swapped, in_order, swap_failed >>

(***************************************************************************)
(* _process_blocks(last_block + 1, current_block): the three filters in    *)
(* turn, each one's entries handled before the next filter is made.  An    *)
(* exception of a filter ends the call (try/except around the whole body); *)
(* the loop then sets last_block = current_block.                          *)
(***************************************************************************)
\* the loop setting last_block one short of current_block: the next range
\* starts at a block already scanned
ProcessBlocksReturns_Overlap ==
    /\ last_block' = current_block - 1
    /\ log' = SelectSeq(log, LAMBDA e : e.blockNumber > current_block - 1)
    /\ pc' = "check_finality"
    /\ scan_i' = 1
    /\ to_finalize' = << >>
    /\ queue' = << >>
    /\ last_applied' = NoEvent
    /\ in_order' = NoWindow
    /\ applied' = {}
    /\ sent' = << >>
    /\ UNCHANGED << web, running, head, budget, current_block, registry, handed,
                    ever_settled, swapped, swap_failed >>

\* _process_blocks has returned: last_block = current_block, and on to
\* _check_finality.  The blocks up to last_block are never fetched again.
ProcessBlocksReturns ==
    /\ last_block' = current_block
    /\ log' = SelectSeq(log, LAMBDA e : e.blockNumber > current_block)
    /\ pc' = "check_finality"
    /\ scan_i' = 1
    /\ to_finalize' = << >>
    /\ queue' = << >>
    /\ last_applied' = NoEvent
    /\ in_order' = NoWindow
    /\ applied' = {}
    /\ sent' = << >>
    /\ UNCHANGED << web, running, head, budget, current_block, registry, handed,
                    ever_settled, swapped, swap_failed >>

Filter(at, kind, next) ==
    /\ pc = at
    /\ \/ /\ queue' = GetAllEntries(kind, last_block + 1, current_block)
          /\ pc' = next
          /\ sent' = << >>
          /\ UNCHANGED << web, running, chain, last_block, current_block, registry,
                          to_finalize, scan_i, history >>
       \/ \* create_filter or get_all_entries raises
          ProcessBlocksReturns

EntriesDone(at, next) ==
    /\ pc = at
    /\ queue = << >>
    /\ pc' = next
    /\ sent' = << >>
    /\ UNCHANGED << web, running, chain, last_block, current_block, queue, registry,
                    to_finalize, scan_i, history >>

FilterCreated == Filter("filter_created", "SettlementCreated", "handle_created")
CreatedDone == EntriesDone("handle_created", "filter_pulled")
FilterPulled == Filter("filter_pulled", "FundsPulled", "handle_pulled")
PulledDone == EntriesDone("handle_pulled", "filter_funded")
FilterFunded == Filter("filter_funded", "VaultFunded", "handle_funded")
FundedDone ==
    /\ pc = "handle_funded"
    /\ queue = << >>
    /\ ProcessBlocksReturns

(***************************************************************************)
(* _check_finality and _finalize_settlement.                               *)
(***************************************************************************)
\* one turn of `for settlement_id, settlement in funded_settlements.items()`
CheckFinalityScan ==
    /\ pc = "check_finality"
    /\ scan_i <= Len(funded_order)
    /\ LET settlement_id == funded_order[scan_i]
           settlement == funded_settlements[settlement_id]
       IN IF settlement.status = "funded"
          THEN \/ /\ to_finalize' =
                       IF IsBlockFinalized(settlement.funded_block)
                       THEN Append(to_finalize, settlement_id)
                       ELSE to_finalize
                  /\ scan_i' = scan_i + 1
                  /\ pc' = pc
               \/ \* get_block_number() raises: out to the loop's except
                  /\ to_finalize' = << >>
                  /\ scan_i' = 1
                  /\ pc' = "loop"
          ELSE /\ scan_i' = scan_i + 1
               /\ UNCHANGED << to_finalize, pc >>
    /\ sent' = << >>
    /\ UNCHANGED << web, running, chain, last_block, current_block, queue, registry,
                    history >>

CheckFinalityScanned ==
    /\ pc = "check_finality"
    /\ scan_i > Len(funded_order)
    /\ pc' = "finalize"
    /\ scan_i' = 1
    /\ sent' = << >>
    /\ UNCHANGED << web, running, chain, last_block, current_block, queue, registry,
                    to_finalize, history >>

\* _finalize_settlement marking the record settled without reading the
\* receipt status of executeSettlement
FundedAfterFinalize_Unchecked(funded, settlement_id, outcome) ==
    IF outcome \in {"settled", "execute_failed"}
    THEN [funded EXCEPT ![settlement_id].status = "settled"]
    ELSE funded

\* funded_settlements after _finalize_settlement
FundedAfterFinalize(funded, settlement_id, outcome) ==
    IF outcome = "settled"
    THEN [funded EXCEPT ![settlement_id].status = "settled"]
    ELSE funded

\* _finalize_settlement without its try/except: a failure ends the
\* _check_finality pass and the settlements still listed are not handed over
FinalizeSettlement_Abort ==
    /\ pc = "finalize"
    /\ to_finalize # << >>
    /\ LET settlement_id == Head(to_finalize)
       IN \E outcome \in FinalizeOutcomes :
            /\ sent' = FinalizeTxs(settlement_id, outcome)
            /\ funded_settlements' =
                 FundedAfterFinalize(funded_settlements, settlement_id, outcome)
            /\ ever_settled' = IF outcome = "settled"
                               THEN ever_settled \cup {settlement_id}
                               ELSE ever_settled
            /\ handed' = handed \cup {settlement_id}
            /\ to_finalize' = IF outcome = "settled" THEN Tail(to_finalize) ELSE << >>
    /\ UNCHANGED << web, running, chain, pc, last_block, current_block, queue,
                    pending_settlements, funded_order, scan_i, swapped,
                    last_applied, in_order, applied, swap_failed >>

FinalizeSettlement ==
    /\ pc = "finalize"
    /\ to_finalize # << >>
    /\ LET settlement_id == Head(to_finalize)
       IN \E outcome \in FinalizeOutcomes :
            /\ sent' = FinalizeTxs(settlement_id, outcome)
            /\ funded_settlements' =
                 FundedAfterFinalize(funded_settlements, settlement_id, outcome)
            /\ ever_settled' = IF outcome = "settled"
                               THEN ever_settled \cup {settlement_id}
                               ELSE ever_settled
            /\ handed' = handed \cup {settlement_id}
    /\ to_finalize' = Tail(to_finalize)
    /\ UNCHANGED << web, running, chain, pc, last_block, current_block, queue,
                    pending_settlements, funded_order, scan_i, swapped,
                    last_applied, in_order, applied, swap_failed >>

\* every selected settlement was handed over: time.sleep, next iteration
FinalizeDone ==
    /\ pc = "finalize"
    /\ to_finalize = << >>
    /\ pc' = "loop"
    /\ sent' = << >>
    /\ UNCHANGED << web, running, chain, last_block, current_block, queue, registry,
                    to_finalize, scan_i, history >>

(***************************************************************************)
(* _run_event_loop: one turn of `while self.running`.                      *)
(***************************************************************************)
\* the loop's condition read as always true: stop() goes unnoticed
WhileRunning_Always == TRUE

\* `while self.running:`
WhileRunning == running

LoopIteration ==
    /\ pc = "loop"
    /\ WhileRunning
    /\ sent' = << >>
    /\ \/ \* current_block > last_block: _process_blocks(last_block + 1, current_block)
          /\ head > last_block
          /\ current_block' = head
          /\ pc' = "filter_created"
          /\ in_order' = InOrder(last_block + 1, head)
          /\ UNCHANGED << web, running, chain, last_block, queue, registry, to_finalize,
                          scan_i, handed, ever_settled, swapped, last_applied, applied,
                          swap_failed >>
       \/ \* no new block: straight to _check_finality
          /\ head <= last_block
          /\ current_block' = head
          /\ pc' = "check_finality"
          /\ UNCHANGED << web, running, chain, last_block, queue, registry,
                          to_finalize, scan_i, history >>
       \/ \* get_block_number() raises: except Exception, sleep, next turn
          UNCHANGED << web, running, chain, pc, last_block, current_block, queue,
                       registry, to_finalize, scan_i, history >>

\* the threads that sign with the facilitator key (config.FACILITATOR_PRIVATE_KEY):
\* two requests of the server in create_settlement, and the Facilitator's loop
Signers == {"request1", "request2", "facilitator"}

\* before the server has answered anything
NoResponse == [status |-> 0]
NoRequest == [method |-> "none"]

\* the Facilitator as constructed, its loop about to start at block 0, and
\* the server as started
Start ==
    /\ head = 0
    /\ log = << >>
    /\ pc = "loop"
    /\ last_block = 0
    /\ current_block = 0
    /\ queue = << >>
    /\ pending_settlements = EmptyDict
    /\ funded_settlements = EmptyDict
    /\ funded_order = << >>
    /\ to_finalize = << >>
    /\ scan_i = 1
    /\ sent = << >>
    /\ handed = {}
    /\ ever_settled = {}
    /\ swapped = {}
    /\ last_applied = NoEvent
    /\ in_order = NoWindow
    /\ applied = {}
    /\ swap_failed = {}
    /\ now = 0
    /\ active_settlements = EmptyDict
    /\ response = NoResponse
    /\ request = NoRequest
    /\ served = 0
    /\ quotes = Quotes
    /\ orders = EmptyDict
    /\ order_quotes = OrderQuotes
    /\ running = TRUE
    /\ order_head = 0
    /\ order_log = << >>
    /\ order_budget = MaxEvents
    /\ tracker_pc = "poll"
    /\ tracker_block = 0
    /\ tracker_queue = << >>
    /\ tracker_events = << >>
    /\ tracker_orders = EmptyDict
    /\ tracker_last = NoEvent
    /\ tx_count = 0
    /\ mempool = {}
    /\ signers = [s \in Signers |-> [pc |-> "idle", nonce |-> 0]]
    /\ submitted = << >>
    /\ settlements = EmptyDict
    /\ ui_events = << >>
    /\ track_pc = "poll"
    /\ track_last_block = 0
    /\ track_current_block = 0
    /\ track_kind = 1
    /\ track_queue = << >>
    /\ api_data = NoResponse
    /\ accepted = EmptyDict

Init == Start /\ budget = MaxEvents

\* a run in which the ledger emits one event more
InitDeep == Start /\ budget = MaxEvents + 1

Next ==
    \/ MineBlock
    \/ LoopIteration
    \/ FilterCreated
    \/ HandleSettlementCreated
    \/ CreatedDone
    \/ FilterPulled
    \/ HandleFundsPulled
    \/ PulledDone
    \/ FilterFunded
    \/ HandleVaultFunded
    \/ FundedDone
    \/ CheckFinalityScan
    \/ CheckFinalityScanned
    \/ FinalizeSettlement
    \/ FinalizeDone

Spec == Init /\ [][Next]_vars

SpecDeep == InitDeep /\ [][Next]_vars

(***************************************************************************)
(* The loop and the ways out of it.  start() has set running and runs      *)
(* _run_event_loop in the calling thread; stop() clears running from       *)
(* elsewhere; a KeyboardInterrupt may arrive at any point of the loop and  *)
(* is either caught by `except KeyboardInterrupt: break` or propagates out *)
(* of _run_event_loop, none of the `except Exception` clauses catching it. *)
(***************************************************************************)
\* the loop has been left
Terminated == pc \in {"stopped", "interrupted"}

\* Facilitator.stop
Stop ==
    /\ ~Terminated
    /\ running
    /\ running' = FALSE
    /\ UNCHANGED << web, chain, pc, last_block, current_block, queue, registry,
                    to_finalize, scan_i, history, sent >>

\* a KeyboardInterrupt reaches the loop
KeyboardInterrupt ==
    /\ ~Terminated
    /\ pc' = "interrupted"
    /\ UNCHANGED << web, chain, running, last_block, current_block, queue, registry,
                    to_finalize, scan_i, history, sent >>

\* `while self.running:` finds running cleared
LoopExit ==
    /\ pc = "loop"
    /\ ~WhileRunning
    /\ pc' = "stopped"
    /\ UNCHANGED << web, chain, running, last_block, current_block, queue, registry,
                    to_finalize, scan_i, history, sent >>

\* every step of the Facilitator's thread, whatever its transactions do
Thread ==
    \/ LoopIteration
    \/ FilterCreated
    \/ HandleSettlementCreated
    \/ CreatedDone
    \/ FilterPulled
    \/ HandleFundsPulled
    \/ PulledDone
    \/ FilterFunded
    \/ HandleVaultFunded
    \/ FundedDone
    \/ CheckFinalityScan
    \/ CheckFinalityScanned
    \/ FinalizeSettlement
    \/ FinalizeDone
    \/ LoopExit

StopNext ==
    \/ MineBlock
    \/ Thread
    \/ Stop
    \/ KeyboardInterrupt

\* the thread keeps running while it has a step to take
SpecStop == Init /\ [][StopNext]_vars /\ WF_vars(Thread)

(***************************************************************************)
(* The loop under the conditions of eventual settlement: the ledger keeps  *)
(* growing, the loop keeps taking its turns, and every transaction the     *)
(* Facilitator submits is sent and mined with status 1.  Reads of the      *)
(* ledger (get_block_number, the event filters) may still raise, but       *)
(* get_block_number does not raise for ever.                               *)
(***************************************************************************)
\* _handle_funds_pulled with its executeSwap mined successfully
FundsPulledSwapMined == HandleFundsPulled /\ swap_failed' = swap_failed

\* _finalize_settlement with both transactions mined successfully
FinalizeSettlementMined ==
    FinalizeSettlement /\ Len(sent') = 2 /\ sent'[2].result = "ok"

\* a turn of the loop in which get_block_number() returns
BlockNumberRead == LoopIteration /\ pc' # "loop"

\* a turn of the finality scan in which is_block_finalized returns
FinalityRead == CheckFinalityScan /\ pc' = "check_finality"

\* the steps of the Facilitator's thread
LoopStep ==
    \/ LoopIteration
    \/ FilterCreated
    \/ HandleSettlementCreated
    \/ CreatedDone
    \/ FilterPulled
    \/ FundsPulledSwapMined
    \/ PulledDone
    \/ FilterFunded
    \/ HandleVaultFunded
    \/ FundedDone
    \/ CheckFinalityScan
    \/ CheckFinalityScanned
    \/ FinalizeSettlementMined
    \/ FinalizeDone

LiveNext ==
    \/ MineBlock
    \/ LoopStep

SpecLive ==
    /\ Init
    /\ [][LiveNext]_vars
    /\ WF_vars(LoopStep)
    /\ SF_vars(MineBlock)
    /\ SF_vars(BlockNumberRead)
    /\ SF_vars(FinalityRead)

(***************************************************************************)
(* P06-Full x402_types.py and server.py: the seller's HTTP server.         *)
(***************************************************************************)
\* the facilitator's loop and the ledger it watches, which the server's
\* requests leave alone
loop == << head, log, budget, pc, last_block, current_block, queue,
           pending_settlements, funded_settlements, funded_order, to_finalize,
           scan_i, handed, ever_settled, swapped, last_applied, in_order,
           applied, swap_failed, running, watch, signing, ui, accepted >>

\* the wall clock advances by half an hour
Tick ==
    /\ now < MaxTicks * 1800
    /\ now' = now + 1800
    /\ sent' = << >>
    /\ UNCHANGED << loop, active_settlements, response, request, served, quotes,
                    orders, order_quotes >>

\* the 'amount' query parameter: absent, empty, not a number, or the digits
\* of an int
AmountParams ==
    { [kind |-> k, value |-> PyIntOf(0)] : k \in {"absent", "empty", "word"} }
    \cup { [kind |-> "digits", value |-> a] : a \in AssetAmounts }

\* the JSON body of a POST: not a SettlementRequest, or one
Bodies ==
    { [kind |-> "invalid", value |-> PyIntOf(0)] }
    \cup { [kind |-> "digits", value |-> a] : a \in AssetAmounts }

\* the max_payment_amount values proofs state for an asset amount: around
\* the server's minimum, 60 * 10^6, and the budget OTCClient.buy_asset
\* computes by default
Offers(asset_amount) ==
    { PyIntOf(IntValue(quotes[asset_amount].max_eurc) + d) : d \in {-1, 0, 1} }
    \cup { PyIntOf(60 * 10 ^ 6) }
    \cup { quotes[asset_amount].max_eurc_budget }

\* the deadlines permits carry
PermitDeadlines == { 0, 1800 * (MaxTicks + 2) }

\* what the base64 part of an X-PAYMENT header decodes to: something that is
\* not an X402PaymentProof, or a proof
Payloads(offers) ==
    { [wellformed |-> FALSE] }
    \cup { [wellformed |-> TRUE, client_address |-> "buyer1",
            max_payment_amount |-> m, permit_signature |-> [deadline |-> d]] :
           m \in offers, d \in PermitDeadlines }

\* the X-PAYMENT header: absent, without the "x402 " prefix, or with it
PaymentHeaders(offers) ==
    { [kind |-> k, payload |-> [wellformed |-> FALSE]] : k \in {"absent", "other"} }
    \cup { [kind |-> "x402", payload |-> p] : p \in Payloads(offers) }

\* parse_x402_payment_header: the proof, or None
ParseX402PaymentHeader(payment_header) ==
    IF payment_header.kind = "x402" /\ payment_header.payload.wellformed
    THEN [none |-> FALSE, proof |-> payment_header.payload]
    ELSE [none |-> TRUE]

\* handle_payment_required: the 402 response
HandlePaymentRequired(asset_amount, t) ==
    [status |-> 402,
     body |-> [error |-> "Payment Required",
               payment_requirement |->
                 [required_amount |-> quotes[asset_amount].required_amount,
                  payment_deadline |-> t + 3600,
                  asset_amount |-> asset_amount,
                  seller |-> "seller",
                  asset_token |-> "YPS"]]]

\* what the ledger makes of create_settlement's transaction
CreateOutcomes ==
    { [kind |-> k, settlementId |-> << >>] :
        k \in {"send_raises", "wait_raises", "reverted"} }
    \cup { [kind |-> "created", settlementId |-> b] : b \in SettlementIds }

\* create_settlement asking the vault for a settlement without a cap on the
\* EURC spent (2^255 in place of max_eurc)
CreateSettlementTxs_NoCap(client_address, asset_amount, required_usdc, max_eurc, outcome) ==
    LET args == << client_address, "seller", "YPS", asset_amount, required_usdc,
                   PyInt(FALSE, ShiftLeft(Big(1), 255)) >>
    IN CASE outcome.kind = "send_raises" -> << >>
         [] outcome.kind = "wait_raises" -> << Tx("createSettlement", args, "timeout") >>
         [] outcome.kind = "reverted" -> << Tx("createSettlement", args, "reverted") >>
         [] OTHER -> << Tx("createSettlement", args, "ok") >>

\* the transactions create_settlement submits
CreateSettlementTxs(client_address, asset_amount, required_usdc, max_eurc, outcome) ==
    LET args == << client_address, "seller", "YPS", asset_amount, required_usdc,
                   max_eurc >>
    IN CASE outcome.kind = "send_raises" -> << >>
         [] outcome.kind = "wait_raises" -> << Tx("createSettlement", args, "timeout") >>
         [] outcome.kind = "reverted" -> << Tx("createSettlement", args, "reverted") >>
         [] OTHER -> << Tx("createSettlement", args, "ok") >>

\* the validation of handle_payment_submitted with <= for <: a proof that
\* offers exactly the minimum is turned away
InsufficientPayment_Inclusive(payment_proof, max_eurc) ==
    ~IntLess(max_eurc, payment_proof.max_payment_amount)

\* `if payment_proof.max_payment_amount < max_eurc` of handle_payment_submitted
InsufficientPayment(payment_proof, max_eurc) ==
    IntLess(payment_proof.max_payment_amount, max_eurc)

\* handle_payment_submitted calling create_settlement before it compares the
\* amounts: a proof that offers too little is turned away with the
\* createSettlement transaction already submitted
HandlePaymentSubmitted_CreateFirst(active, asset_amount, payment_header, outcome, t) ==
    LET parsed == ParseX402PaymentHeader(payment_header)
        payment_proof == parsed.proof
        required_usdc == quotes[asset_amount].required_usdc
        max_eurc == quotes[asset_amount].max_eurc
        txs == CreateSettlementTxs(payment_proof.client_address, asset_amount,
                                   required_usdc, max_eurc, outcome)
        settlement_id == Hex(outcome.settlementId)
    IN IF parsed.none
       THEN [response |-> [status |-> 400,
                           body |-> [error |-> "Invalid X-PAYMENT header"]],
             active |-> active, sent |-> << >>]
       ELSE IF InsufficientPayment(payment_proof, max_eurc)
       THEN [response |-> [status |-> 400,
                           body |-> [error |-> "Insufficient payment",
                                     required_usdc |-> required_usdc,
                                     max_eurc |-> max_eurc,
                                     provided_eurc |-> payment_proof.max_payment_amount]],
             active |-> active, sent |-> txs]
       ELSE IF outcome.kind = "created"
       THEN [response |-> [status |-> 200,
                           body |-> [settlement_id |-> settlement_id,
                                     status |-> "created",
                                     message |-> "Settlement created successfully",
                                     required_usdc |-> required_usdc,
                                     max_eurc |-> max_eurc,
                                     asset_amount |-> asset_amount]],
             active |-> Put(active, settlement_id,
                            [client |-> payment_proof.client_address,
                             asset_amount |-> asset_amount,
                             required_usdc |-> required_usdc,
                             max_eurc |-> max_eurc,
                             status |-> "pending",
                             created_at |-> t]),
             sent |-> txs]
       ELSE [response |-> [status |-> 500, body |-> [error |-> "Settlement failed"]],
             active |-> active, sent |-> txs]

\* handle_payment_submitted: the response, active_settlements afterwards and
\* the transactions submitted
HandlePaymentSubmitted(active, asset_amount, payment_header, outcome, t) ==
    LET parsed == ParseX402PaymentHeader(payment_header)
        payment_proof == parsed.proof
        required_usdc == quotes[asset_amount].required_usdc
        max_eurc == quotes[asset_amount].max_eurc
        txs == CreateSettlementTxs(payment_proof.client_address, asset_amount,
                                   required_usdc, max_eurc, outcome)
        settlement_id == Hex(outcome.settlementId)
    IN IF parsed.none
       THEN [response |-> [status |-> 400,
                           body |-> [error |-> "Invalid X-PAYMENT header"]],
             active |-> active, sent |-> << >>]
       ELSE IF InsufficientPayment(payment_proof, max_eurc)
       THEN [response |-> [status |-> 400,
                           body |-> [error |-> "Insufficient payment",
                                     required_usdc |-> required_usdc,
                                     max_eurc |-> max_eurc,
                                     provided_eurc |-> payment_proof.max_payment_amount]],
             active |-> active, sent |-> << >>]
       ELSE IF outcome.kind = "created"
       THEN [response |-> [status |-> 200,
                           body |-> [settlement_id |-> settlement_id,
                                     status |-> "created",
                                     message |-> "Settlement created successfully",
                                     required_usdc |-> required_usdc,
                                     max_eurc |-> max_eurc,
                                     asset_amount |-> asset_amount]],
             active |-> Put(active, settlement_id,
                            [client |-> payment_proof.client_address,
                             asset_amount |-> asset_amount,
                             required_usdc |-> required_usdc,
                             max_eurc |-> max_eurc,
                             status |-> "pending",
                             created_at |-> t]),
             sent |-> txs]
       ELSE [response |-> [status |-> 500, body |-> [error |-> "Settlement failed"]],
             active |-> active, sent |-> txs]

\* buy_asset storing a record for the submission whatever create_settlement
\* did: when it raised the record is kept, under an id nothing emitted
BuyAssetFor_StoreAnyway(asset_amount, payment_header, outcome) ==
    IF payment_header.kind = "absent"
    THEN /\ response' = HandlePaymentRequired(asset_amount, now)
         /\ sent' = << >>
         /\ UNCHANGED active_settlements
    ELSE LET r == HandlePaymentSubmitted(active_settlements, asset_amount,
                                         payment_header, outcome, now)
         IN /\ response' = r.response
            /\ active_settlements' =
                 IF r.response.status = 500
                 THEN Put(r.active, Hex(<< >>), [status |-> "pending"])
                 ELSE r.active
            /\ sent' = r.sent

\* buy_asset once the asset amount is known: without an X-PAYMENT header the
\* 402, with one the submission
BuyAssetFor(asset_amount, payment_header, outcome) ==
    IF payment_header.kind = "absent"
    THEN /\ response' = HandlePaymentRequired(asset_amount, now)
         /\ sent' = << >>
         /\ UNCHANGED active_settlements
    ELSE LET r == HandlePaymentSubmitted(active_settlements, asset_amount,
                                         payment_header, outcome, now)
         IN /\ response' = r.response
            /\ active_settlements' = r.active
            /\ sent' = r.sent

BadRequest(error) ==
    /\ response' = [status |-> 400, body |-> [error |-> error]]
    /\ sent' = << >>
    /\ UNCHANGED active_settlements

\* GET /buy-asset?amount=...
BuyAssetGet ==
    \E asset_amount_str \in AmountParams :
      \E payment_header \in PaymentHeaders(Offers(asset_amount_str.value)),
         outcome \in CreateOutcomes :
        /\ request' = [method |-> "GET", asset_amount |-> asset_amount_str,
                       payment_header |-> payment_header]
        /\ CASE asset_amount_str.kind \in {"absent", "empty"} ->
                  BadRequest("Missing 'amount' parameter")
             [] asset_amount_str.kind = "word" ->
                  BadRequest("Invalid 'amount' parameter")
             [] OTHER ->
                  BuyAssetFor(asset_amount_str.value, payment_header, outcome)
        /\ served < MaxRequests
        /\ served' = served + 1
        /\ UNCHANGED << loop, now, quotes, orders, order_quotes >>

\* POST /buy-asset with a JSON body
BuyAssetPost ==
    \E data \in Bodies :
      \E payment_header \in PaymentHeaders(Offers(data.value)),
         outcome \in CreateOutcomes :
        /\ request' = [method |-> "POST", asset_amount |-> data,
                       payment_header |-> payment_header]
        /\ IF data.kind = "invalid"
           THEN BadRequest("Invalid request")
           ELSE BuyAssetFor(data.value, payment_header, outcome)
        /\ served < MaxRequests
        /\ served' = served + 1
        /\ UNCHANGED << loop, now, quotes, orders, order_quotes >>

ServerNext ==
    \/ Tick
    \/ BuyAssetGet
    \/ BuyAssetPost

\* the server alone, answering one request after the other
ServerSpec == Init /\ [][ServerNext]_vars

\* what vault.functions.getSettlement(...).call() does for an id the server
\* does not hold: it raises, or it returns the contract's data
GetSettlementCalls == {"raises", "returns"}

\* GET /settlement/<settlement_id>
GetSettlement ==
    \E settlement_id \in { Hex(b) : b \in SettlementIds },
       call \in GetSettlementCalls :
      /\ request' = [method |-> "GET /settlement", settlement_id |-> settlement_id,
                     call |-> call]
      /\ response' =
           IF ~HasKey(active_settlements, settlement_id)
           THEN IF call = "raises"
                THEN [status |-> 404, body |-> [error |-> "Settlement not found"]]
                ELSE [status |-> 200,
                      body |-> [settlement_id |-> settlement_id,
                                status |-> "on-chain",
                                data |-> "settlement_data"]]
           ELSE [status |-> 200, body |-> active_settlements[settlement_id]]
      /\ sent' = << >>
      /\ UNCHANGED << loop, now, active_settlements, served, quotes, orders,
                      order_quotes >>

StatusNext ==
    \/ MineBlock
    \/ BuyAssetGet
    \/ GetSettlement

\* a run in which the ledger emits one event
InitStatus == Start /\ budget = 1

\* the server with its status endpoint, and the ledger emitting an event of
\* the vault next to it
StatusSpec == InitStatus /\ [][StatusNext]_vars

(***************************************************************************)
(* P02-x402 server/server.py: the facilitator's HTTP server, which keeps   *)
(* its orders in memory and submits the payment transactions itself.       *)
(***************************************************************************)
\* generate_order_id: a fresh uuid4
OrderIds == {"order1", "order2"}

\* Web3.keccak(text=...) of an order id, as bytes
Keccak(text) == << "keccak", text >>

\* tx_hash.hex() of the transaction calling fn for an order
TxHash(fn, order_id) == << "0x", fn, order_id >>

\* what becomes of the createPaymentRequest transaction
PaymentRequestOutcomes == {"send_raises", "wait_raises", "reverted", "ok"}

\* create_x402_response: the response, orders afterwards and the
\* transactions submitted
CreateX402Response(all_orders, order_id, client_address, asset_amount_str, outcome, t) ==
    LET asset_amount == order_quotes[asset_amount_str].asset_amount
        required_usdc == order_quotes[asset_amount_str].required_usdc
        deadline == t + PAYMENT_DEADLINE_SECONDS
        order_id_bytes == Keccak(order_id)
        args == << order_id_bytes, client_address, "seller", "YPS", asset_amount,
                   "MockUSDC", required_usdc, deadline >>
        failed == [status |-> 500,
                   body |-> [error |-> "Failed to create payment request"]]
    IN CASE outcome = "send_raises" ->
              [response |-> failed, orders |-> all_orders, sent |-> << >>]
         [] outcome = "wait_raises" ->
              [response |-> failed, orders |-> all_orders,
               sent |-> << Tx("createPaymentRequest", args, "timeout") >>]
         [] OTHER ->
              [response |->
                 [status |-> 402,
                  body |-> [order_id |-> order_id,
                            token |-> "MockUSDC",
                            amount |-> required_usdc,
                            deadline |-> deadline,
                            asset |-> [token |-> "YPS", amount |-> asset_amount]]],
               orders |->
                 Put(all_orders, order_id,
                     [order_id |-> order_id,
                      order_id_bytes |-> order_id_bytes,
                      client |-> client_address,
                      asset_amount |-> asset_amount,
                      required_usdc |-> required_usdc,
                      deadline |-> deadline,
                      status |-> "requested",
                      tx_hash |-> TxHash("createPaymentRequest", order_id)]),
               sent |-> << Tx("createPaymentRequest", args,
                              IF outcome = "reverted" THEN "reverted" ELSE "ok") >>]

\* the four transactions of the payment sequence, in the order of buy_asset
PaymentSteps ==
    << "pullPaymentWithPermit", "instantSwap", "completeSwapAndSettle",
       "releaseAsset" >>

\* the order's field for the hash of each step
HashFields == << "payment_tx", "swap_tx", "settle_tx", "release_tx" >>

\* where the try block of the payment sequence raises: nowhere, in sending
\* step k, in waiting for its receipt, in the getSwap call after step 2, or
\* in the balanceOf call after the order was updated
RaisePoints ==
    { [at |-> "none", step |-> 0], [at |-> "getSwap", step |-> 2],
      [at |-> "balanceOf", step |-> 4] }
    \cup { [at |-> how, step |-> k] : how \in {"send", "wait"}, k \in 1..4 }

\* what the ledger makes of the payment sequence: where it raises, and which
\* step (0: none) is mined with a failing status
PaymentOutcomes == { [raises |-> r, reverted |-> v] : r \in RaisePoints, v \in 0..4 }

\* the arguments of step k
StepArgs(k, order_id, order, permit_signature) ==
    CASE k = 1 -> << order.order_id_bytes, "MockEURC", permit_signature.amount,
                     permit_signature.deadline >>
      [] k = 2 -> << Keccak(<< order_id, "-swap" >>), "MockEURC", "MockUSDC",
                     permit_signature.amount >>
      [] k = 3 -> << order.order_id_bytes, "amount_out" >>
      [] OTHER -> << order.order_id_bytes >>

\* the number of transactions of the sequence that are sent
StepsSent(outcome) ==
    CASE outcome.raises.at = "send" -> outcome.raises.step - 1
      [] outcome.raises.at \in {"wait", "getSwap"} -> outcome.raises.step
      [] OTHER -> 4

\* the transactions the payment sequence submits; a receipt's status is not
\* read, so a failing one does not end the sequence
PaymentTxs(order_id, order, permit_signature, outcome) ==
    [k \in 1..StepsSent(outcome) |->
       Tx(PaymentSteps[k], StepArgs(k, order_id, order, permit_signature),
          IF outcome.raises.at = "wait" /\ outcome.raises.step = k THEN "timeout"
          ELSE IF outcome.reverted = k THEN "reverted"
          ELSE "ok")]

\* the order after the payment sequence: updated once all four receipts are
\* in, otherwise as it was
OrderAfterPayment(order_id, order, outcome) ==
    IF outcome.raises.at \in {"none", "balanceOf"}
    THEN [f \in DOMAIN order \cup { HashFields[k] : k \in 1..4 } |->
            IF f = "status" THEN "completed"
            ELSE IF \E k \in 1..4 : HashFields[k] = f
                 THEN TxHash(PaymentSteps[CHOOSE k \in 1..4 : HashFields[k] = f],
                             order_id)
                 ELSE order[f]]
    ELSE order

\* the response to a payment: 200 with the four hashes, or the except
\* branch's {"error": str(e)}, 500
PaymentResponse(order_id, order, permit_signature, outcome) ==
    IF outcome.raises.at = "none"
    THEN [status |-> 200,
          body |-> [status |-> "success",
                    order_id |-> order_id,
                    asset_amount |-> order.asset_amount,
                    payment_amount |-> permit_signature.amount,
                    transactions |->
                      [payment |-> TxHash(PaymentSteps[1], order_id),
                       swap |-> TxHash(PaymentSteps[2], order_id),
                       settle |-> TxHash(PaymentSteps[3], order_id),
                       release |-> TxHash(PaymentSteps[4], order_id)]]]
    ELSE [status |-> 500, body |-> [error |-> "exception"]]

\* the permit_signature objects of X-PAYMENT headers
PermitSignatures ==
    { [amount |-> PyIntOf(110 * 10 ^ 6), deadline |-> d, v |-> 27, r |-> "r",
       s |-> "s"] : d \in PermitDeadlines }

\* the X-PAYMENT header: absent, not JSON, JSON without order_id or without
\* permit_signature, or with both
OrderPaymentHeaders ==
    { [kind |-> k, order_id |-> "", permit_signature |-> << >>] :
        k \in {"absent", "not_json", "incomplete"} }
    \cup { [kind |-> "payment", order_id |-> o, permit_signature |-> p] :
             o \in OrderIds, p \in PermitSignatures }

\* the query parameters: 'client' (may be missing) and 'amount'
OrderQueries ==
    { [client |-> c, amount |-> a] : c \in {"", "buyer1"}, a \in AmountStrings }

OrderAnswer(status, error) ==
    /\ response' = [status |-> status, body |-> [error |-> error]]
    /\ sent' = << >>
    /\ UNCHANGED orders

\* buy_asset without an X-PAYMENT header: a new order and the 402
BuyAssetPaymentRequired(query) ==
    \E order_id \in OrderIds \ DOMAIN orders, outcome \in PaymentRequestOutcomes :
      LET r == CreateX402Response(orders, order_id, query.client, query.amount,
                                  outcome, now)
      IN /\ response' = r.response
         /\ orders' = r.orders
         /\ sent' = r.sent

\* buy_asset with an X-PAYMENT header: the payment sequence
BuyAssetPayment(payment_header) ==
    CASE payment_header.kind = "not_json" ->
           OrderAnswer(400, "Invalid X-PAYMENT header format")
      [] payment_header.kind = "incomplete" ->
           OrderAnswer(400, "Missing order_id or permit_signature")
      [] ~HasKey(orders, payment_header.order_id) ->
           OrderAnswer(404, "Order not found")
      [] OTHER ->
           \E outcome \in PaymentOutcomes :
             LET order_id == payment_header.order_id
                 order == orders[order_id]
                 permit_signature == payment_header.permit_signature
             IN /\ sent' = PaymentTxs(order_id, order, permit_signature, outcome)
                /\ orders' = [orders EXCEPT
                                ![order_id] = OrderAfterPayment(order_id, order, outcome)]
                /\ response' = PaymentResponse(order_id, order, permit_signature,
                                               outcome)

\* GET or POST /buy-asset of the P02 server
BuyAsset ==
    \E query \in OrderQueries, payment_header \in OrderPaymentHeaders :
      /\ served < MaxOrderRequests
      /\ served' = served + 1
      /\ request' = [method |-> "GET", query |-> query,
                     payment_header |-> payment_header]
      /\ CASE query.client = "" -> OrderAnswer(400, "Missing 'client' parameter")
           [] query.amount \notin NumberStrings ->
                OrderAnswer(400, "Invalid 'amount' parameter")
           [] payment_header.kind = "absent" -> BuyAssetPaymentRequired(query)
           [] OTHER -> BuyAssetPayment(payment_header)
      /\ UNCHANGED << loop, now, active_settlements, quotes, order_quotes >>

OrderNext ==
    \/ Tick
    \/ BuyAsset

\* the P02 server alone, answering one request after the other
OrderSpec == Init /\ [][OrderNext]_vars

(***************************************************************************)
(* The P02 EventTracker (tracker/tracker.py) in watch mode, and the ledger *)
(* it polls.                                                               *)
(***************************************************************************)
\* everything but the P02 tracker and its ledger
beside_watch == << chain, pc, last_block, current_block, queue, registry, to_finalize,
                   scan_i, history, sent, running, now, active_settlements,
                   response, request, served, quotes, orders, order_quotes,
                   signing, ui, accepted >>

\* the event kinds get_events_from_block asks for, in the order it asks
OrderEventNames ==
    << "PaymentRequested", "PermitConsumed", "FundsPulled", "SwapCompleted",
       "VaultFunded", "AssetReleased", "RefundSent" >>

\* what the contracts may emit in a block
OrderEmissions ==
    [event : { OrderEventNames[i] : i \in 1..Len(OrderEventNames) },
     orderId : { Keccak(o) : o \in OrderIds }]

\* the sequences of at most n such emissions
RECURSIVE OrderEmissionSeqs(_)
OrderEmissionSeqs(n) ==
    IF n = 0 THEN { <<>> }
    ELSE OrderEmissionSeqs(n - 1)
         \cup { Append(s, e) : s \in { t \in OrderEmissionSeqs(n - 1) : Len(t) = n - 1 },
                               e \in OrderEmissions }

\* a block is mined.  The tracker reads the ledger's height at the top of its
\* loop only, so a block mined while it processes is seen at the next poll.
MineOrderBlock ==
    /\ order_head < MaxBlock
    /\ tracker_pc = "poll"
    /\ \E es \in OrderEmissionSeqs(Min(MaxPerBlock, order_budget)) :
         /\ order_head' = order_head + 1
         /\ order_log' = order_log \o
              [i \in 1..Len(es) |->
                 [event |-> es[i].event, args |-> [orderId |-> es[i].orderId],
                  blockNumber |-> order_head + 1, logIndex |-> i]]
         /\ order_budget' = order_budget - Len(es)
    /\ UNCHANGED << beside_watch, tracker_pc, tracker_block, tracker_queue,
                    tracker_events, tracker_orders, tracker_last >>

\* contract.events.<name>.get_logs(fromBlock, toBlock)
GetLogs(name, from_block, to_block) ==
    SelectSeq(order_log, LAMBDA e : /\ e.event = name
                                    /\ e.blockNumber >= from_block
                                    /\ e.blockNumber <= to_block)

\* `events` after the first n get_logs calls of get_events_from_block
RECURSIVE Extended(_, _, _)
Extended(n, from_block, to_block) ==
    IF n = 0 THEN << >>
    ELSE Extended(n - 1, from_block, to_block)
         \o GetLogs(OrderEventNames[n], from_block, to_block)

\* x goes before y under key=lambda x: (x['blockNumber'], x['logIndex'])
KeyLess(x, y) ==
    \/ x.blockNumber < y.blockNumber
    \/ x.blockNumber = y.blockNumber /\ x.logIndex < y.logIndex

\* event put into a sorted list, behind the entries of equal key
RECURSIVE Inserted(_, _)
Inserted(sorted, event) ==
    IF sorted = << >> THEN << event >>
    ELSE IF KeyLess(event, Head(sorted))
         THEN << event >> \o sorted
         ELSE << Head(sorted) >> \o Inserted(Tail(sorted), event)

\* the events put one after the other into a sorted list
RECURSIVE InsertedAll(_, _)
InsertedAll(sorted, events) ==
    IF events = << >> THEN sorted
    ELSE InsertedAll(Inserted(sorted, Head(events)), Tail(events))

\* get_events_from_block without its sort: the events kind by kind
Sorted_AsFetched(events) == events

\* events.sort(key=lambda x: (x['blockNumber'], x['logIndex'])): stable
Sorted(events) == InsertedAll(<< >>, events)

\* get_events_from_block when its first n get_logs calls return (the next
\* one raising when n is short of all: the except clause, then the sort)
GetEventsFromBlock(n, from_block, to_block) ==
    Sorted(Extended(n, from_block, to_block))

\* bytes.hex()
BytesHex(b) == << "hex", b >>

\* self.events after process_event (the transaction hash is left out)
EventsAfterProcess(events, event, t) ==
    Append(events, [name |-> event.event, data |-> event.args, timestamp |-> t,
                    block |-> event.blockNumber])

\* self.orders after process_event
OrdersAfterProcess(all_orders, event) ==
    LET order_id == BytesHex(event.args.orderId)
        known == IF HasKey(all_orders, order_id)
                 THEN all_orders
                 ELSE Put(all_orders, order_id, [events |-> << >>, status |-> "pending"])
        listed == [known EXCEPT ![order_id].events = Append(@, event.event)]
    IN IF event.event = "AssetReleased"
       THEN [listed EXCEPT ![order_id].status = "completed"]
       ELSE listed

\* one turn of watch's `while True` up to the for loop
TrackerPoll ==
    /\ tracker_pc = "poll"
    /\ \/ \* latest_block > current_block
          /\ order_head > tracker_block
          /\ \E n \in 0..Len(OrderEventNames) :
               tracker_queue' = GetEventsFromBlock(n, tracker_block + 1, order_head)
          /\ tracker_pc' = "process"
          /\ tracker_last' = NoEvent
       \/ \* w3.eth.block_number raises: only KeyboardInterrupt is caught
          /\ tracker_pc' = "crashed"
          /\ UNCHANGED << tracker_queue, tracker_last >>
    /\ UNCHANGED << beside_watch, order_head, order_log, order_budget, tracker_block,
                    tracker_events, tracker_orders >>

\* process_event for the next of the events
TrackerProcess ==
    /\ tracker_pc = "process"
    /\ tracker_queue # << >>
    /\ tracker_events' = EventsAfterProcess(tracker_events, Head(tracker_queue), now)
    /\ tracker_orders' = OrdersAfterProcess(tracker_orders, Head(tracker_queue))
    /\ tracker_last' = Head(tracker_queue)
    /\ tracker_queue' = Tail(tracker_queue)
    /\ UNCHANGED << beside_watch, order_head, order_log, order_budget, tracker_pc,
                    tracker_block >>

\* the for loop is through: current_block = latest_block, sleep
TrackerProcessed ==
    /\ tracker_pc = "process"
    /\ tracker_queue = << >>
    /\ tracker_block' = order_head
    /\ order_log' = SelectSeq(order_log, LAMBDA e : e.blockNumber > order_head)
    /\ tracker_pc' = "poll"
    /\ UNCHANGED << beside_watch, order_head, order_budget, tracker_queue,
                    tracker_events, tracker_orders, tracker_last >>

TrackerNext ==
    \/ MineOrderBlock
    \/ TrackerPoll
    \/ TrackerProcess
    \/ TrackerProcessed

\* the P02 tracker alone with its ledger
TrackerSpec == Init /\ [][TrackerNext]_vars

(***************************************************************************)
(* web3_utils.send_transaction and wait_for_transaction, as called with    *)
(* the facilitator key by the server's create_settlement (one call per     *)
(* request, the requests served in threads) and by the Facilitator's       *)
(* _execute_swap and _finalize_settlement (one thread, in another          *)
(* process).  Nothing in src/ serialises the callers.                      *)
(***************************************************************************)
\* everything but the account and the callers of send_transaction
beside_signing == << chain, pc, last_block, current_block, queue, registry,
                     to_finalize, scan_i, history, sent, running, now,
                     active_settlements, response, request, served, quotes, orders,
                     order_quotes, watch, ui, accepted >>

\* get_nonce: get_transaction_count(address) counts the mined transactions
GetNonce == tx_count

\* send_transaction up to build_transaction: the nonce is read
BuildTransaction ==
    \E s \in Signers :
      /\ signers[s].pc = "idle"
      /\ Len(submitted) < MaxSubmitted
      /\ signers' = [signers EXCEPT ![s] = [pc |-> "built", nonce |-> GetNonce]]
      /\ UNCHANGED << beside_signing, tx_count, mempool, submitted >>

\* send_transaction from sign_transaction on: send_raw_transaction hands the
\* transaction to the node, which takes it into its pool or refuses it (the
\* call raising, to the caller's except clause)
SendRawTransaction ==
    \E s \in Signers, taken \in BOOLEAN :
      /\ signers[s].pc = "built"
      /\ submitted' = Append(submitted,
                             [by |-> s, nonce |-> signers[s].nonce,
                              unmined |-> { tx.nonce : tx \in mempool }])
      /\ mempool' = IF taken
                    THEN mempool \cup {[id |-> Len(submitted) + 1,
                                        nonce |-> signers[s].nonce]}
                    ELSE mempool
      /\ signers' = [signers EXCEPT ![s].pc = IF taken THEN "waiting" ELSE "idle"]
      /\ UNCHANGED << beside_signing, tx_count >>

\* the ledger mines the account's next transaction: one of the pool with
\* the nonce that is due; the others of that nonce are dropped
MineTransaction ==
    /\ \E tx \in mempool : tx.nonce = tx_count
    /\ tx_count' = tx_count + 1
    /\ mempool' = { tx \in mempool : tx.nonce > tx_count }
    /\ UNCHANGED << beside_signing, signers, submitted >>

\* wait_for_transaction returns the receipt, or raises after its timeout
\* with the transaction still in the pool
WaitForTransaction ==
    \E s \in Signers :
      /\ signers[s].pc = "waiting"
      /\ signers' = [signers EXCEPT ![s].pc = "idle"]
      /\ UNCHANGED << beside_signing, tx_count, mempool, submitted >>

SigningNext ==
    \/ BuildTransaction
    \/ SendRawTransaction
    \/ MineTransaction
    \/ WaitForTransaction

\* the callers of send_transaction alone with the account
SigningSpec == Init /\ [][SigningNext]_vars

(***************************************************************************)
(* The P06 tracker (tracker.py): the EventTracker thread writes the        *)
(* globals `settlements` and `events`, the Flask thread serves /api/data   *)
(* from them.  No lock is taken; a thread switch may fall between any two  *)
(* statements, and the step boundaries below are those between which the   *)
(* reader can tell the difference.                                         *)
(***************************************************************************)
\* everything but the P06 tracker
beside_ui == << chain, pc, last_block, current_block, queue, registry, to_finalize,
                scan_i, history, sent, running, now, active_settlements, response,
                request, served, quotes, orders, order_quotes, watch, signing,
                accepted >>

\* the event kinds _process_blocks filters, in its order
TrackKinds == << "SettlementCreated", "FundsPulled", "VaultFunded", "SettlementExecuted" >>

\* events.append({...}) of a handler (details and timestamp are left out)
EventsAppended(all_events, event) ==
    Append(all_events, [type |-> event.kind, block |-> event.blockNumber])

\* `settlements` after the handler of event's kind but for the VaultFunded
\* one
SettlementsAfter(all, event) ==
    LET settlement_id == Hex(event.settlementId)
    IN CASE event.kind = "SettlementCreated" ->
              Put(all, settlement_id, CreatedRecord(event))
         [] event.kind = "FundsPulled" /\ HasKey(all, settlement_id) ->
              [all EXCEPT ![settlement_id].status = "funds_pulled"]
         [] event.kind = "SettlementExecuted" /\ HasKey(all, settlement_id) ->
              [all EXCEPT ![settlement_id].status = "settled"]
         [] OTHER -> all

\* _track_events: one turn of `while self.running` up to _process_blocks
TrackPoll ==
    /\ track_pc = "poll"
    /\ head > track_last_block
    /\ track_current_block' = head
    /\ track_kind' = 1
    /\ track_pc' = "filter"
    /\ UNCHANGED << beside_ui, settlements, ui_events, track_last_block, track_queue,
                    api_data >>

\* _process_blocks has returned: last_block = current_block, sleep
TrackWindowDone ==
    /\ track_last_block' = track_current_block
    /\ track_pc' = "poll"
    /\ track_queue' = << >>
    /\ track_kind' = 1

\* create_filter(...).get_all_entries() of the kind at work, or its raising
\* (_process_blocks' except clause)
TrackFilter ==
    /\ track_pc = "filter"
    /\ \/ /\ track_queue' = GetAllEntries(TrackKinds[track_kind], track_last_block + 1,
                                          track_current_block)
          /\ track_pc' = "handle"
          /\ UNCHANGED << track_last_block, track_kind >>
       \/ TrackWindowDone
    /\ UNCHANGED << beside_ui, settlements, ui_events, track_current_block, api_data >>

\* the handler of the next entry, whole, but for _handle_vault_funded of a
\* settlement the tracker holds: of that, `settlements[id]['status'] = 'funded'`
TrackHandle ==
    /\ track_pc = "handle"
    /\ track_queue # << >>
    /\ LET event == Head(track_queue)
           settlement_id == Hex(event.settlementId)
       IN IF event.kind = "VaultFunded" /\ HasKey(settlements, settlement_id)
          THEN /\ settlements' = [settlements EXCEPT ![settlement_id].status = "funded"]
               /\ track_pc' = "funded_block"
               /\ UNCHANGED << ui_events, track_queue >>
          ELSE /\ settlements' = SettlementsAfter(settlements, event)
               /\ ui_events' = EventsAppended(ui_events, event)
               /\ track_queue' = Tail(track_queue)
               /\ UNCHANGED track_pc
    /\ UNCHANGED << beside_ui, track_last_block, track_current_block, track_kind,
                    api_data >>

\* _handle_vault_funded from `settlements[id]['funded_block'] = ...` on
TrackFundedBlock ==
    /\ track_pc = "funded_block"
    /\ LET event == Head(track_queue)
       IN /\ settlements' =
               [id \in DOMAIN settlements |->
                  IF id = Hex(event.settlementId)
                  THEN ("funded_block" :> event.args.blockNumber) @@ settlements[id]
                  ELSE settlements[id]]
          /\ ui_events' = EventsAppended(ui_events, event)
    /\ track_queue' = Tail(track_queue)
    /\ track_pc' = "handle"
    /\ UNCHANGED << beside_ui, track_last_block, track_current_block, track_kind,
                    api_data >>

\* the for loop of a kind is through: the next filter, or the return
TrackHandled ==
    /\ track_pc = "handle"
    /\ track_queue = << >>
    /\ IF track_kind < Len(TrackKinds)
       THEN /\ track_kind' = track_kind + 1
            /\ track_pc' = "filter"
            /\ UNCHANGED << track_last_block, track_queue >>
       ELSE TrackWindowDone
    /\ UNCHANGED << beside_ui, settlements, ui_events, track_current_block, api_data >>

\* events[-50:]
LastFifty(all_events) ==
    SubSeq(all_events, IF Len(all_events) > 50 THEN Len(all_events) - 49 ELSE 1,
           Len(all_events))

\* GET /api/data, in the Flask thread
GetData ==
    /\ \/ api_data' = [status |-> 200,
                       body |-> [total_settlements |-> Cardinality(DOMAIN settlements),
                                 total_events |-> Len(ui_events),
                                 current_block |-> head,
                                 settlements |-> settlements,
                                 events |-> LastFifty(ui_events)]]
       \/ \* get_block_number() raises
          api_data' = [status |-> 500]
    /\ UNCHANGED << beside_ui, settlements, ui_events, track_pc, track_last_block,
                    track_current_block, track_kind, track_queue >>

UiNext ==
    \/ MineBlock
    \/ TrackPoll
    \/ TrackFilter
    \/ TrackHandle
    \/ TrackFundedBlock
    \/ TrackHandled
    \/ GetData

\* a run in which the ledger emits two events
InitUi == Start /\ budget = 2

\* the P06 tracker and its reader, with the ledger
UiSpec == InitUi /\ [][UiNext]_vars

(***************************************************************************)
(* A purchase from end to end: the server creates settlements on the       *)
(* ledger the Facilitator polls.  The vault emits SettlementCreated with   *)
(* the arguments of the createSettlement call, under an id no settlement   *)
(* had before; the buyer's payment and the vault's funding follow as       *)
(* FundsPulled and VaultFunded events of settlements the ledger holds.     *)
(***************************************************************************)
\* the asset amounts bought: 0.95 and 50 tokens
PurchaseAmounts == { Units(95, 16), Units(50, 18) }

\* the settlements the vault holds
CreatedOnChain ==
    { log[i].settlementId : i \in { j \in 1..Len(log) : log[j].kind = "SettlementCreated" } }

\* the SettlementCreated event of a createSettlement transaction mined in
\* block b
CreatedEvent(tx, settlementId, b) ==
    [kind |-> "SettlementCreated", settlementId |-> settlementId,
     args |-> [client |-> tx.args[1], seller |-> tx.args[2],
               assetToken |-> tx.args[3], assetAmount |-> tx.args[4],
               requiredUSDC |-> tx.args[5], maxEURC |-> tx.args[6]],
     blockNumber |-> b, logIndex |-> 1]

\* the maxEURC the vault holds for a settlement
MaxEURCOnChain(settlementId) ==
    LET i == CHOOSE j \in 1..Len(log) :
                 log[j].kind = "SettlementCreated" /\ log[j].settlementId = settlementId
    IN log[i].args.maxEURC

\* emission e of a settlement the vault holds, as the event of log index i
\* in block b
StampPayment(e, b, i) ==
    [kind |-> e.kind, settlementId |-> e.settlementId,
     args |-> IF e.kind = "VaultFunded" THEN [blockNumber |-> b]
              ELSE [eurcAmount |-> MaxEURCOnChain(e.settlementId)],
     blockNumber |-> b, logIndex |-> i]

\* GET /buy-asset with an X-PAYMENT header, the createSettlement transaction
\* mined in the block after the head.  As in MineBlock, the block appears
\* where the Facilitator reads the ledger's height.
Purchase ==
    \E asset_amount \in PurchaseAmounts :
      \E payment_header \in PaymentHeaders(Offers(asset_amount)),
         outcome \in CreateOutcomes :
        /\ served < MaxPurchases
        /\ head < MaxBlock
        /\ pc \in {"loop", "check_finality"}
        /\ outcome.settlementId \notin CreatedOnChain
        /\ request' = [method |-> "GET",
                       asset_amount |-> [kind |-> "digits", value |-> asset_amount],
                       payment_header |-> payment_header]
        /\ BuyAssetFor(asset_amount, payment_header, outcome)
        /\ served' = served + 1
        /\ IF sent' # << >> /\ sent'[1].result = "ok"
           THEN /\ head' = head + 1
                /\ log' = Append(log, CreatedEvent(sent'[1], outcome.settlementId,
                                                   head + 1))
                /\ accepted' = Put(accepted, Hex(outcome.settlementId),
                                   payment_header.payload.max_payment_amount)
           ELSE UNCHANGED << head, log, accepted >>
        /\ UNCHANGED << budget, pc, last_block, current_block, queue, registry,
                        to_finalize, scan_i, history, running, now, quotes, orders,
                        order_quotes, watch, signing, ui >>

\* a block is mined, holding FundsPulled and VaultFunded events of
\* settlements the vault holds
MinePayments ==
    /\ head < MaxBlock
    /\ pc \in {"loop", "check_finality"}
    /\ \E es \in EmissionSeqs(Min(MaxPerBlock, budget)) :
         /\ \A i \in 1..Len(es) : /\ es[i].kind # "SettlementCreated"
                                  /\ es[i].settlementId \in CreatedOnChain
         /\ head' = head + 1
         /\ log' = log \o [i \in 1..Len(es) |-> StampPayment(es[i], head + 1, i)]
         /\ budget' = budget - Len(es)
    /\ sent' = << >>
    /\ UNCHANGED << web, running, pc, last_block, current_block, queue, registry,
                    to_finalize, scan_i, history >>

PurchaseNext ==
    \/ Purchase
    \/ MinePayments
    \/ LoopIteration
    \/ FilterCreated
    \/ HandleSettlementCreated
    \/ CreatedDone
    \/ FilterPulled
    \/ HandleFundsPulled
    \/ PulledDone
    \/ FilterFunded
    \/ HandleVaultFunded
    \/ FundedDone
    \/ CheckFinalityScan
    \/ CheckFinalityScanned
    \/ FinalizeSettlement
    \/ FinalizeDone

\* the server, the ledger and the Facilitator
PurchaseSpec == Init /\ [][PurchaseNext]_vars

(***************************************************************************)
(* What the claims speak of.                                               *)
(***************************************************************************)
\* the keys the registry may hold
TrackedIds == { Hex(b) : b \in SettlementIds }

\* the keys the registry holds
RegistryKeys == DOMAIN pending_settlements \cup DOMAIN funded_settlements

\* the status recorded for an id, looked up across both dicts (the further
\* advanced record first), "none" when there is no record
StatusOf(settlement_id) ==
    IF HasKey(funded_settlements, settlement_id)
    THEN funded_settlements[settlement_id].status
    ELSE IF HasKey(pending_settlements, settlement_id)
         THEN pending_settlements[settlement_id].status
         ELSE "none"

Rank(status) ==
    CASE status = "created" -> 1
      [] status = "funds_pulled" -> 2
      [] status = "funded" -> 3
      [] status = "settled" -> 4
      [] OTHER -> 0

\* the step is a handler handling the event at the head of the queue
Handling(at) == pc = at /\ queue # << >> /\ queue' = Tail(queue)

\* the id of the event at the head of the queue
QueuedId == Hex(Head(queue).settlementId)

\* the id a transaction is about
TxId(tx) == Hex(tx.args[1])

FinalityFns == {"confirmFinality", "executeSettlement"}

\* (block, log index) of a comes before that of b
Before(a, b) ==
    \/ a.blockNumber < b.blockNumber
    \/ a.blockNumber = b.blockNumber /\ a.logIndex < b.logIndex

(***************************************************************************)
(* C1.  Monotonic status: whatever events are handled (duplicates too) and *)
(* whatever the finality ticks do, the status recorded for an id never     *)
(* moves backwards along created < funds_pulled < funded < settled.        *)
(* Fails: a second SettlementCreated for an id at funds_pulled stores a    *)
(* fresh record at created.                                                *)
(***************************************************************************)
C1_MonotonicStatus ==
    [][\A id \in TrackedIds : Rank(StatusOf(id)') >= Rank(StatusOf(id))]_vars

(***************************************************************************)
(* C2.  Idempotent FundsPulled: handling FundsPulled again for an id that  *)
(* is at funds_pulled and already had its executeSwap submitted leaves the *)
(* status at funds_pulled and submits no further executeSwap.              *)
(* Fails: the handler calls _execute_swap on every delivery.               *)
(***************************************************************************)
C2_FundsPulledIdempotent ==
    [][\A id \in TrackedIds :
         ( /\ Handling("handle_pulled")
           /\ id = QueuedId
           /\ StatusOf(id) = "funds_pulled"
           /\ id \in swapped )
         => ( /\ StatusOf(id)' = "funds_pulled"
              /\ sent' = << >> )]_vars

(***************************************************************************)
(* C3.  Finality gating: no confirmFinality or executeSettlement is        *)
(* submitted for a settlement funded at block B while head - B is below    *)
(* FINALITY_CONFIRMATIONS, and a turn of the finality check that looks at  *)
(* a funded settlement selects it exactly when head - B has reached        *)
(* FINALITY_CONFIRMATIONS (so also when it equals it).                     *)
(***************************************************************************)
C3_FinalityGating ==
    [][ /\ \A i \in 1..Len(sent') :
             sent'[i].fn \in FinalityFns
             => head' - funded_settlements'[TxId(sent'[i])].funded_block
                  >= FINALITY_CONFIRMATIONS
        /\ ( /\ pc = "check_finality" /\ pc' = "check_finality"
             /\ scan_i' = scan_i + 1
             /\ funded_settlements[funded_order[scan_i]].status = "funded" )
           => LET id == funded_order[scan_i]
                  B == funded_settlements[id].funded_block
              IN IF head - B >= FINALITY_CONFIRMATIONS
                 THEN to_finalize' = Append(to_finalize, id)
                 ELSE to_finalize' = to_finalize ]_vars

\* a confirmFinality was just submitted for a settlement whose funded block
\* has exactly FINALITY_CONFIRMATIONS confirmations
C3_Witness ==
    \E i \in 1..Len(sent) :
        /\ sent[i].fn = "confirmFinality"
        /\ head - funded_settlements[TxId(sent[i])].funded_block
             = FINALITY_CONFIRMATIONS

(***************************************************************************)
(* C4.  No settlement is finalized twice: once an id's status was set to   *)
(* settled, no confirmFinality or executeSettlement is submitted for it    *)
(* again.  Fails: a re-delivered SettlementCreated followed by a           *)
(* re-delivered VaultFunded puts a funded record over the settled one.     *)
(***************************************************************************)
C4_NoSecondFinalization ==
    [][\A i \in 1..Len(sent') :
          sent'[i].fn \in FinalityFns => TxId(sent'[i]) \notin ever_settled]_vars

(***************************************************************************)
(* C5.  Exactly-once hand-off: a settlement is handed to                   *)
(* _finalize_settlement at most once in a run, also when the transactions  *)
(* of that hand-off fail.  Fails: a failed hand-off leaves the status at   *)
(* funded and the next tick hands the settlement over again.               *)
(***************************************************************************)
C5_HandedOnce ==
    [][( /\ pc = "finalize" /\ to_finalize # << >>
         /\ to_finalize' = Tail(to_finalize) )
       => Head(to_finalize) \notin handed]_vars

(***************************************************************************)
(* C6.  Bounded swap: every executeSwap submitted carries the maxEURC of   *)
(* the settlement's SettlementCreated event as its maximum spend and that  *)
(* event's requiredUSDC as its minimum output, the values its record       *)
(* holds.                                                                  *)
(***************************************************************************)
C6_BoundedSwap ==
    \A i \in 1..Len(sent) :
        sent[i].fn = "executeSwap"
        => /\ sent[i].args[2] = CreatedArgs(sent[i].args[1]).maxEURC
           /\ sent[i].args[3] = CreatedArgs(sent[i].args[1]).requiredUSDC
           /\ HasKey(pending_settlements, TxId(sent[i]))
           /\ sent[i].args[2] = pending_settlements[TxId(sent[i])].max_eurc
           /\ sent[i].args[3] = pending_settlements[TxId(sent[i])].required_usdc

\* an executeSwap was just submitted and mined
C6_Witness ==
    \E i \in 1..Len(sent) : sent[i].fn = "executeSwap" /\ sent[i].result = "ok"

(***************************************************************************)
(* C7.  Creation only by the created event: the registry gains a key only  *)
(* in the SettlementCreated handler, the key of the event handled; and a   *)
(* FundsPulled or VaultFunded event for an id the registry does not hold   *)
(* leaves both dicts as they are and submits nothing.                      *)
(***************************************************************************)
C7_CreationOnlyByCreated ==
    [][ /\ RegistryKeys' # RegistryKeys
           => /\ Handling("handle_created")
              /\ RegistryKeys' = RegistryKeys \cup {QueuedId}
        /\ ( /\ Handling("handle_pulled") \/ Handling("handle_funded")
             /\ QueuedId \notin RegistryKeys )
           => /\ UNCHANGED << pending_settlements, funded_settlements >>
              /\ sent' = << >> ]_vars

\* a FundsPulled or VaultFunded event was just handled for an id the
\* registry does not hold, while it holds another settlement
C7_Witness ==
    /\ last_applied.kind \in {"FundsPulled", "VaultFunded"}
    /\ Hex(last_applied.settlementId) \notin RegistryKeys
    /\ RegistryKeys # {}

(***************************************************************************)
(* C8.  Insert-if-absent: handling SettlementCreated for an id the         *)
(* registry already holds leaves both dicts as they are.                   *)
(* Fails: the handler stores a fresh record at created unconditionally.    *)
(***************************************************************************)
C8_InsertIfAbsent ==
    [][( Handling("handle_created") /\ QueuedId \in RegistryKeys )
       => UNCHANGED << pending_settlements, funded_settlements >>]_vars

(***************************************************************************)
(* C9.  Event ordering in a poll window: within one _process_blocks call   *)
(* every event is applied after all events of lower (block, log index),    *)
(* whatever their kinds.  Fails: the events are applied kind by kind.      *)
(***************************************************************************)
C9_AppliedInLogOrder ==
    [][( /\ last_applied' # last_applied
         /\ last_applied # NoEvent
         /\ last_applied' # NoEvent )
       => Before(last_applied, last_applied')]_vars

(***************************************************************************)
(* C10.  Out-of-order resilience: when the events of a range all concern   *)
(* one settlement, the dicts the handlers leave are those that handling    *)
(* the events in (block, log index) order leaves.  Fails: a FundsPulled    *)
(* handled before its SettlementCreated is dropped, handled after it it    *)
(* moves the record to funds_pulled.                                       *)
(***************************************************************************)
C10_SameAsInOrder ==
    ( /\ pc = "handle_funded" /\ queue = << >>
      /\ Cardinality({ in_order.events[i].settlementId :
                         i \in 1..Len(in_order.events) }) = 1 )
    => /\ pending_settlements = in_order.dicts.pending
       /\ funded_settlements = in_order.dicts.funded

(***************************************************************************)
(* What the claims about the server speak of.                              *)
(***************************************************************************)
\* the last request was a submission the server could read: an asset amount
\* and an X-PAYMENT header holding a proof
Submitted ==
    /\ request.method # "none"
    /\ request.asset_amount.kind = "digits"
    /\ request.payment_header.kind = "x402"
    /\ request.payment_header.payload.wellformed

\* the asset amount, the proof and the max_payment_amount of that submission
AskedAmount == request.asset_amount.value
SubmittedProof == request.payment_header.payload
Offered == SubmittedProof.max_payment_amount

\* the server's minimum-with-buffer (max_eurc) for that submission
MinimumWithBuffer == quotes[AskedAmount].max_eurc

(***************************************************************************)
(* C11.  Proof validation boundary: a submission offering less than the    *)
(* server's max_eurc for the asset amount is answered 400 'Insufficient    *)
(* payment' with the required and the provided amounts; one offering       *)
(* exactly max_eurc, or more, passes the validation (the server goes on to *)
(* create the settlement and answers 200 or, should the ledger fail, 500). *)
(* Acceptance is so monotone in the amount offered.                        *)
(***************************************************************************)
C11_ValidationBoundary ==
    Submitted
    => IF IntValue(Offered) < IntValue(MinimumWithBuffer)
       THEN /\ response.status = 400
            /\ response.body.error = "Insufficient payment"
            /\ response.body.required_usdc = quotes[AskedAmount].required_usdc
            /\ response.body.max_eurc = MinimumWithBuffer
            /\ response.body.provided_eurc = Offered
            /\ sent = << >>
       ELSE response.status \in {200, 500}

\* a proof offering exactly the minimum-with-buffer of 0.95 tokens was
\* accepted and the settlement created
C11_Witness ==
    /\ Submitted
    /\ AskedAmount = Units(95, 16)
    /\ Offered = MinimumWithBuffer
    /\ response.status = 200

(***************************************************************************)
(* C12.  End-to-end acceptance scenario: for 50 * 10^18 asset units the    *)
(* requirement is 55 * 10^6, and a proof with max_payment_amount           *)
(* 60 * 10^6 passes the server's validation, so that the settlement is     *)
(* created when the ledger creates it.                                     *)
(* Fails: the server demands int(55 * 10^6 * 1.10 * 1.1) = 66 550 000 and  *)
(* answers 400 'Insufficient payment'.                                     *)
(***************************************************************************)
C12_AcceptanceScenario ==
    ( /\ Submitted
      /\ AskedAmount = Units(50, 18)
      /\ IntValue(Offered) = 60 * 10 ^ 6 )
    => /\ IntValue(quotes[AskedAmount].required_usdc) = 55 * 10 ^ 6
       /\ response.status \in {200, 500}
       /\ \A i \in 1..Len(sent) :
            sent[i].result = "ok" => response.status = 200

(***************************************************************************)
(* C14.  Deadline enforcement: a payment submission whose deadline is      *)
(* already in the past when the server handles it is answered with a       *)
(* deadline-expired error whatever amount it offers, and no transaction is *)
(* submitted for it.                                                       *)
(* Fails: handle_payment_submitted never reads the proof's permit deadline *)
(* (nor any other deadline); a proof whose deadline has passed and that    *)
(* offers enough has createSettlement submitted.                           *)
(***************************************************************************)
C14_DeadlineEnforced ==
    [][( /\ served' # served
         /\ Submitted'
         /\ SubmittedProof'.permit_signature.deadline < now )
       => /\ response'.status = 400
          /\ response'.body.error = "Deadline expired"
          /\ sent' = << >>]_vars

\* floor(asset_amount * 1.10 * 10^6 / 10^18) = floor(asset_amount * 11 / 10^13)
\* of a positive asset amount, in integers
ExactRequirement(asset_amount) ==
    PyInt(FALSE, BigDivMod(BigMul(asset_amount.mag, Big(11)), Pow10(13)).q)

\* the last request carried an asset amount the server could read
Asked == request.method # "none" /\ request.asset_amount.kind = "digits"

(***************************************************************************)
(* C15.  Requirement amount: for a positive asset amount at the price      *)
(* 1.10 the required amount of the 402 requirement is                      *)
(* floor(asset_amount * price / 10^18) in 6-decimal units, and the amount  *)
(* handle_payment_submitted computes for the same asset amount is the same *)
(* number.                                                                 *)
(* Fails: both are computed in binary floating point.  For                 *)
(* asset_amount = 95 * 10^16 the product 0.95 * 1.10 * 10^6 rounds to      *)
(* 1044999.9999999999 and int() truncates it to 1 044 999, where the floor *)
(* is 1 045 000.  (The two computations do agree with each other, and      *)
(* 100 * 10^18 does give 110 * 10^6.)                                      *)
(***************************************************************************)
C15_RequirementIsFloor ==
    ( Asked /\ ~AskedAmount.neg /\ AskedAmount.mag # << >> )
    => /\ response.status = 402
          => response.body.payment_requirement.required_amount
               = ExactRequirement(AskedAmount)
       /\ ( Submitted /\ response.status = 200 )
          => /\ response.body.required_usdc = ExactRequirement(AskedAmount)
             /\ response.body.required_usdc = quotes[AskedAmount].required_amount

(***************************************************************************)
(* C16.  Invalid amount: a request whose asset amount is zero or negative  *)
(* is answered with an InvalidAmount validation error; no payment          *)
(* requirement is produced, no settlement recorded and no transaction      *)
(* submitted for it.                                                       *)
(* Fails: buy_asset hands every integer on; amount=0 without a proof gets  *)
(* a 402 with required_amount 0, and with a proof (any offer >= 0) a       *)
(* createSettlement for 0 units is submitted.                              *)
(***************************************************************************)
C16_InvalidAmountRejected ==
    [][( /\ served' # served
         /\ Asked'
         /\ (AskedAmount'.neg \/ AskedAmount'.mag = << >>) )
       => /\ response'.status = 400
          /\ response'.body.error = "InvalidAmount"
          /\ sent' = << >>
          /\ active_settlements' = active_settlements]_vars

(***************************************************************************)
(* C17.  State unchanged on ledger failure: when executeSwap raises, times *)
(* out or is mined with a status other than 1, the settlement's record     *)
(* stays in pending_settlements at funds_pulled with its other fields as   *)
(* they were; when confirmFinality or executeSettlement does, the record   *)
(* stays in funded_settlements at funded, unchanged; no other record is    *)
(* touched.                                                                *)
(***************************************************************************)
C17_UnchangedOnLedgerFailure ==
    [][ /\ ( /\ Handling("handle_pulled")
             /\ HasKey(pending_settlements, QueuedId)
             /\ ~(sent' # << >> /\ sent'[Len(sent')].result = "ok") )
           => /\ pending_settlements' =
                   [pending_settlements EXCEPT ![QueuedId].status = "funds_pulled"]
              /\ funded_settlements' = funded_settlements
        /\ ( /\ pc = "finalize" /\ to_finalize # << >>
             /\ to_finalize' = Tail(to_finalize)
             /\ ~(Len(sent') = 2 /\ sent'[2].result = "ok") )
           => /\ funded_settlements[Head(to_finalize)].status = "funded"
              /\ funded_settlements' = funded_settlements
              /\ pending_settlements' = pending_settlements ]_vars

\* an executeSettlement was just mined with a failing status (after a
\* confirmFinality that went through), and the settlement is still funded
C17_Witness ==
    /\ Len(sent) = 2
    /\ sent[2].fn = "executeSettlement"
    /\ sent[2].result = "reverted"
    /\ funded_settlements[TxId(sent[2])].status = "funded"

(***************************************************************************)
(* C18.  At-least-once event delivery: the loop never moves last_block     *)
(* past an event it has not handled, so that an event of a range whose     *)
(* fetching raised is fetched again with the next range.                   *)
(* Fails: _process_blocks swallows the exception of a filter and the loop  *)
(* goes on to `last_block = current_block`; the events of the range not    *)
(* handled by then are never asked for again.                              *)
(***************************************************************************)
C18_NoEventSkipped ==
    [][ last_block' # last_block
        => \A i \in 1..Len(log) :
             log[i].blockNumber <= last_block'
             => << log[i].blockNumber, log[i].logIndex >> \in applied ]_vars

(***************************************************************************)
(* C19.  No automatic swap retry: an executeSwap is submitted only by the  *)
(* handling of a FundsPulled event for that very settlement, one per event *)
(* handled; so once an executeSwap has reverted, timed out or raised, the  *)
(* loop submits no further one for the settlement on its own.              *)
(***************************************************************************)
C19_NoSwapRetry ==
    [][\A i \in 1..Len(sent') :
          sent'[i].fn = "executeSwap"
          => /\ Handling("handle_pulled")
             /\ Head(queue).kind = "FundsPulled"
             /\ QueuedId = TxId(sent'[i])
             /\ Len(sent') = 1]_vars

\* an executeSwap failed in an earlier poll window, the loop has got to its
\* next _process_blocks call and on to a later finality check, and the
\* settlement is still at funds_pulled with nothing submitted for it
C19_Witness ==
    \E id \in swap_failed :
        /\ pc = "check_finality"
        /\ last_block >= 2
        /\ HasKey(pending_settlements, id)
        /\ pending_settlements[id].status = "funds_pulled"
        /\ pending_settlements[id].block < last_block
        /\ sent = << >>

\* the ledger's log holds a SettlementCreated, then a FundsPulled, then a
\* VaultFunded event of the id, the last in a block the ledger will grow
\* FINALITY_CONFIRMATIONS blocks past
EmittedInOrder(id) ==
    \E i, j, k \in 1..Len(log) :
        /\ i < j /\ j < k
        /\ log[i].kind = "SettlementCreated" /\ Hex(log[i].settlementId) = id
        /\ log[j].kind = "FundsPulled" /\ Hex(log[j].settlementId) = id
        /\ log[k].kind = "VaultFunded" /\ Hex(log[k].settlementId) = id
        /\ log[k].blockNumber + FINALITY_CONFIRMATIONS <= MaxBlock

(***************************************************************************)
(* C13.  Eventual settlement: when the ledger keeps growing, the loop      *)
(* keeps running and every transaction of the Facilitator is mined         *)
(* successfully, a settlement whose SettlementCreated, FundsPulled and     *)
(* VaultFunded events are emitted in that order, in blocks after the       *)
(* loop's start, eventually has status settled.                            *)
(* Fails, through the skipped range of C18: a filter of the range holding  *)
(* the events raises, last_block moves past them, and the settlement is    *)
(* never recorded, let alone settled.                                      *)
(***************************************************************************)
C13_EventualSettlement ==
    \A id \in TrackedIds : EmittedInOrder(id) ~> (StatusOf(id) = "settled")

\* the last request of the P02 server was a payment for an order it holds,
\* and the payment sequence raised
PaymentFailed ==
    /\ request.method # "none"
    /\ "query" \in DOMAIN request
    /\ request.payment_header.kind = "payment"
    /\ response.status = 500

\* the transaction hashes a response body carries
ReportedHashes(body) ==
    IF "transactions" \in DOMAIN body
    THEN { body.transactions[f] : f \in DOMAIN body.transactions }
    ELSE {}

\* the hashes of payment steps an order record carries
StoredHashes(order) ==
    { order[f] : f \in DOMAIN order \cap { HashFields[k] : k \in 1..4 } }

(***************************************************************************)
(* C20.  Partial-progress reporting: when the P02 payment sequence fails   *)
(* at step k, the error response and the stored order carry the            *)
(* transaction hash of every earlier step that was mined successfully.     *)
(* Fails: the except branch answers {"error": str(e)} alone, and the       *)
(* order's payment_tx, swap_tx, settle_tx and release_tx are written only  *)
(* after all four receipts are in.                                         *)
(***************************************************************************)
C20_PartialProgressReported ==
    PaymentFailed
    => \A k \in 1..Len(sent) :
         sent[k].result = "ok"
         => LET order_id == request.payment_header.order_id
                hash == TxHash(sent[k].fn, order_id)
            IN /\ hash \in ReportedHashes(response.body)
               /\ hash \in StoredHashes(orders[order_id])

\* the last request reached handle_payment_submitted: an asset amount the
\* server could read and an X-PAYMENT header
ToSubmitted == Asked /\ request.payment_header.kind # "absent"

\* its header is one parse_x402_payment_header returns None for
Unparseable ==
    \/ request.payment_header.kind # "x402"
    \/ ~request.payment_header.payload.wellformed

\* its proof offers less than the minimum-with-buffer
BelowMinimum == Submitted /\ IntValue(Offered) < IntValue(MinimumWithBuffer)

(***************************************************************************)
(* C21.  Validation errors never reach orchestration: a submission that    *)
(* handle_payment_submitted rejects, for a header it cannot parse or for   *)
(* an amount below the minimum, is answered 400 with create_settlement     *)
(* not called: no transaction is submitted and active_settlements stays    *)
(* as it was.                                                              *)
(***************************************************************************)
C21_ValidationStopsShort ==
    [][( /\ served' # served
         /\ ToSubmitted'
         /\ Unparseable' \/ BelowMinimum' )
       => /\ response'.status = 400
          /\ response'.body.error
               = IF Unparseable' THEN "Invalid X-PAYMENT header"
                 ELSE "Insufficient payment"
          /\ sent' = << >>
          /\ active_settlements' = active_settlements]_vars

\* a submission whose X-PAYMENT header carries the "x402 " prefix but no
\* proof behind it was just turned away
C21_Witness ==
    /\ ToSubmitted
    /\ request.payment_header.kind = "x402"
    /\ ~request.payment_header.payload.wellformed
    /\ response.status = 400
    /\ response.body.error = "Invalid X-PAYMENT header"
    /\ sent = << >>

\* the ledger has emitted an event of one of the kinds for the id
OnChain(settlement_id, kinds) ==
    \E i \in 1..Len(log) :
        log[i].kind \in kinds /\ Hex(log[i].settlementId) = settlement_id

(***************************************************************************)
(* C22.  Status endpoint: GET /settlement/{id} for a settlement the server *)
(* tracks answers with its current lifecycle status: once the ledger has   *)
(* emitted FundsPulled for it the status returned is funds_pulled or       *)
(* later, once VaultFunded funded or later; for an id the server does not  *)
(* hold and the vault's getSettlement raises for, the answer is 404.       *)
(* Fails: the record of active_settlements is written once, with status    *)
(* pending, and nothing in server.py ever updates it; the endpoint returns *)
(* pending whatever has happened on the ledger.                            *)
(***************************************************************************)
C22_StatusEndpoint ==
    [][( /\ request'.method = "GET /settlement"
         /\ head' = head
         /\ served' = served )
       => LET id == request'.settlement_id
          IN /\ HasKey(active_settlements, id)
                => /\ response'.status = 200
                   /\ OnChain(id, {"FundsPulled"})
                      => response'.body.status \in {"funds_pulled", "funded", "settled"}
                   /\ OnChain(id, {"VaultFunded"})
                      => response'.body.status \in {"funded", "settled"}
             /\ ( ~HasKey(active_settlements, id) /\ request'.call = "raises" )
                => response'.status = 404]_vars

\* the step marks the order completed
Completes(order_id) ==
    /\ HasKey(orders, order_id)
    /\ orders[order_id].status # "completed"
    /\ orders'[order_id].status = "completed"

\* the step answers a payment for the order with 200
AnswersSuccess(order_id) ==
    /\ served' # served
    /\ request'.payment_header.kind = "payment"
    /\ request'.payment_header.order_id = order_id
    /\ response'.status = 200

(***************************************************************************)
(* C23.  No local assumption of success (P02): an order becomes completed, *)
(* and the server answers 200 'success', only in a step whose four         *)
(* transactions pullPaymentWithPermit, instantSwap, completeSwapAndSettle  *)
(* and releaseAsset were all mined with status 1.                          *)
(* Fails: buy_asset waits for each receipt but never reads its status, so  *)
(* a transaction mined as reverted is followed by the next step and the    *)
(* order ends completed.                                                   *)
(***************************************************************************)
C23_CompletedOnlyIfAllMined ==
    [][\A order_id \in OrderIds :
         ( Completes(order_id) \/ AnswersSuccess(order_id) )
         => /\ Len(sent') = 4
            /\ \A k \in 1..4 :
                 sent'[k].fn = PaymentSteps[k] /\ sent'[k].result = "ok"]_vars

\* C24: the event loop is left only by a KeyboardInterrupt or by its
\* condition finding `running` cleared by stop(): no step that is not the
\* interrupt takes the loop to its end while running is set, so an exception
\* of the ledger gateway (block number, filter, send, receipt wait) leaves the
\* loop turning; and once stop() has cleared running the loop does end.
C24_LoopTermination ==
    /\ [][( Terminated' /\ ~Terminated ) => ( pc' = "interrupted" \/ ~running )]_vars
    /\ ( ~running ) ~> Terminated

\* the loop has survived a failed executeSwap and was then ended by stop()
C24_Witness == pc = "stopped" /\ ~running /\ swap_failed # {}

(***************************************************************************)
(* C25.  Finalization sequence order: in one _finalize_settlement attempt, *)
(* executeSettlement is submitted only as the second transaction, after a  *)
(* confirmFinality for the same id mined with status 1; a confirmFinality  *)
(* that was not mined with status 1 is the attempt's only transaction; and *)
(* the record turns settled only in an attempt whose executeSettlement was *)
(* mined with status 1.                                                    *)
(***************************************************************************)
C25_FinalizationOrder ==
    [][( pc = "finalize" /\ to_finalize # << >> /\ to_finalize' = Tail(to_finalize) )
       => LET id == Head(to_finalize)
          IN /\ \A k \in 1..Len(sent') :
                  sent'[k].fn = "executeSettlement"
                  => /\ k = 2
                     /\ sent'[1] = Tx("confirmFinality", sent'[k].args, "ok")
                     /\ TxId(sent'[k]) = id
             /\ ( sent' # << >> /\ sent'[1].result # "ok" ) => Len(sent') = 1
             /\ ( funded_settlements'[id].status = "settled"
                  /\ funded_settlements[id].status # "settled" )
                => /\ Len(sent') = 2
                   /\ sent'[2] = Tx("executeSettlement", FinalityArgs(id), "ok")]_vars

\* a confirmFinality was mined with a failing status: it is the attempt's
\* only transaction and the settlement is still funded
C25_Witness ==
    /\ Len(sent) = 1
    /\ sent[1].fn = "confirmFinality"
    /\ sent[1].result = "reverted"
    /\ funded_settlements[TxId(sent[1])].status = "funded"

(***************************************************************************)
(* C26.  funded_block is set once: every record of funded_settlements      *)
(* carries a funded_block, and the funded_block a settlement's record      *)
(* carries never changes afterwards.                                       *)
(* Fails: after a second SettlementCreated for the id has put a fresh      *)
(* record into pending_settlements (C8), a second VaultFunded moves that   *)
(* record over the funded one, with the second event's blockNumber.        *)
(***************************************************************************)
C26_FundedBlockSetOnce ==
    [][\A id \in DOMAIN funded_settlements' :
          /\ "funded_block" \in DOMAIN funded_settlements'[id]
          /\ HasKey(funded_settlements, id)
             => funded_settlements'[id].funded_block
                  = funded_settlements[id].funded_block]_vars

(***************************************************************************)
(* C27.  Late FundsPulled is ignored: handling a FundsPulled event for a   *)
(* settlement whose status is funded or settled leaves both dicts as they  *)
(* are and submits no transaction.                                         *)
(* Fails: after a second SettlementCreated for the id (C8) the id is in    *)
(* pending_settlements again, next to its funded record, and the handler   *)
(* moves that record to funds_pulled and submits executeSwap.              *)
(***************************************************************************)
C27_LateFundsPulledIgnored ==
    [][( /\ Handling("handle_pulled")
         /\ StatusOf(QueuedId) \in {"funded", "settled"} )
       => /\ UNCHANGED << pending_settlements, funded_settlements >>
          /\ sent' = << >>]_vars

\* the fields of a record that the handlers after creation may write
\* (funded_at is not modelled)
WrittenAfterCreation == {"status", "funded_block"}

\* record `after` is record `before` but for the fields written after
\* creation
SameCreation(before, after) ==
    /\ DOMAIN after \ DOMAIN before \subseteq WrittenAfterCreation
    /\ \A field \in DOMAIN before \ WrittenAfterCreation :
         field \in DOMAIN after /\ after[field] = before[field]

\* the step is one _finalize_settlement call
Finalizing == pc = "finalize" /\ to_finalize # << >> /\ to_finalize' = Tail(to_finalize)

(***************************************************************************)
(* C28.  Immutable creation fields: the FundsPulled handler with its       *)
(* _execute_swap, the VaultFunded handler and _finalize_settlement keep    *)
(* every record and change of it at most status and funded_block: client,  *)
(* seller, asset_token, asset_amount, required_usdc and max_eurc (and the  *)
(* creation block) stay as created.  A record of pending_settlements is    *)
(* followed into funded_settlements when the VaultFunded handler moves it. *)
(***************************************************************************)
C28_CreationFieldsKept ==
    [][( Handling("handle_pulled") \/ Handling("handle_funded") \/ Finalizing )
       => /\ \A id \in DOMAIN pending_settlements :
               IF HasKey(pending_settlements', id)
               THEN SameCreation(pending_settlements[id], pending_settlements'[id])
               ELSE /\ HasKey(funded_settlements', id)
                    /\ SameCreation(pending_settlements[id], funded_settlements'[id])
          /\ \A id \in DOMAIN funded_settlements :
               /\ HasKey(funded_settlements', id)
               /\ ( HasKey(pending_settlements, id) => HasKey(pending_settlements', id) )
                  => SameCreation(funded_settlements[id], funded_settlements'[id])]_vars

\* the VaultFunded handler has just moved a record that had been through
\* FundsPulled, and it carries what its SettlementCreated event said
C28_Witness ==
    /\ last_applied.kind = "VaultFunded"
    /\ pc = "handle_funded"
    /\ Hex(last_applied.settlementId) \in swapped
    /\ HasKey(funded_settlements, Hex(last_applied.settlementId))
    /\ funded_settlements[Hex(last_applied.settlementId)].status = "funded"
    /\ funded_settlements[Hex(last_applied.settlementId)].required_usdc
         = CreatedArgs(last_applied.settlementId).requiredUSDC

\* the records of every settlement but settlement_id are as they were
OthersUntouched(settlement_id) ==
    /\ \A other \in DOMAIN pending_settlements \ {settlement_id} :
         /\ HasKey(pending_settlements', other)
         /\ pending_settlements'[other] = pending_settlements[other]
    /\ \A other \in DOMAIN funded_settlements \ {settlement_id} :
         /\ HasKey(funded_settlements', other)
         /\ funded_settlements'[other] = funded_settlements[other]

(***************************************************************************)
(* C29.  Failure isolation between settlements: while FundsPulled events   *)
(* of the window are still queued, the step taken handles the next of them *)
(* and stays in the loop over them, and when its executeSwap raised, timed *)
(* out or reverted, no other settlement's record has changed; while        *)
(* settlements selected by _check_finality are still listed, the step      *)
(* taken hands the next of them to _finalize_settlement and stays in the   *)
(* pass, and when its confirmFinality or executeSettlement raised, timed   *)
(* out or reverted, no other settlement's record has changed.              *)
(***************************************************************************)
C29_FailureIsolation ==
    [][ /\ ( pc = "handle_pulled" /\ queue # << >> )
           => /\ queue' = Tail(queue)
              /\ pc' = pc
              /\ last_applied' = Head(queue)
              /\ ~( sent' # << >> /\ sent'[Len(sent')].result = "ok" )
                 => OthersUntouched(QueuedId)
        /\ ( pc = "finalize" /\ to_finalize # << >> )
           => /\ to_finalize' = Tail(to_finalize)
              /\ pc' = pc
              /\ handed' = handed \cup {Head(to_finalize)}
              /\ ~( Len(sent') = 2 /\ sent'[2].result = "ok" )
                 => OthersUntouched(Head(to_finalize)) ]_vars

\* in one _check_finality pass the settlement first in the scan failed to
\* finalize and is still funded, and the one after it was settled
C29_Witness ==
    /\ pc = "finalize"
    /\ to_finalize = << >>
    /\ Len(funded_order) = 2
    /\ funded_order[1] \in handed
    /\ funded_settlements[funded_order[1]].status = "funded"
    /\ Len(sent) = 2
    /\ sent[2] = Tx("executeSettlement", FinalityArgs(funded_order[2]), "ok")
    /\ funded_settlements[funded_order[2]].status = "settled"

(***************************************************************************)
(* C30.  No re-execution of a completed order: a request whose X-PAYMENT   *)
(* header names an order that is already completed submits none of         *)
(* pullPaymentWithPermit, instantSwap, completeSwapAndSettle and           *)
(* releaseAsset.                                                           *)
(* Fails: buy_asset looks the order up and never reads its status; the     *)
(* whole sequence is submitted again.                                      *)
(***************************************************************************)
C30_NoReexecution ==
    [][( /\ served' # served
         /\ request'.payment_header.kind = "payment"
         /\ HasKey(orders, request'.payment_header.order_id)
         /\ orders[request'.payment_header.order_id].status = "completed" )
       => \A k \in 1..Len(sent') :
            \A step \in 1..Len(PaymentSteps) : sent'[k].fn # PaymentSteps[step]]_vars

\* the record handle_payment_submitted stores for the submission just made
StoredRecord ==
    [client |-> SubmittedProof.client_address,
     asset_amount |-> AskedAmount,
     required_usdc |-> quotes[AskedAmount].required_usdc,
     max_eurc |-> MinimumWithBuffer,
     status |-> "pending",
     created_at |-> now]

(***************************************************************************)
(* C31.  Server record only after the created event: a submission that     *)
(* passes the validation gains a record in active_settlements exactly when *)
(* its createSettlement transaction was mined with a SettlementCreated     *)
(* event in the receipt (result "ok"), under the settlement id the answer  *)
(* names, with 200; when the transaction raised at send, timed out or came *)
(* back without the event, active_settlements is as it was and the answer  *)
(* is 500.                                                                 *)
(***************************************************************************)
C31_RecordAfterCreatedEvent ==
    [][( /\ served' # served
         /\ Submitted'
         /\ ~BelowMinimum' )
       => IF sent' # << >> /\ sent'[1].result = "ok"
          THEN /\ response'.status = 200
               /\ response'.body.settlement_id \in TrackedIds
               /\ active_settlements' =
                    Put(active_settlements, response'.body.settlement_id, StoredRecord')
          ELSE /\ response'.status = 500
               /\ active_settlements' = active_settlements]_vars

\* a createSettlement came back without the event: 500 and nothing stored
C31_Witness ==
    /\ Submitted
    /\ ~BelowMinimum
    /\ Len(sent) = 1
    /\ sent[1].fn = "createSettlement"
    /\ sent[1].result = "reverted"
    /\ response.status = 500
    /\ active_settlements = EmptyDict

(***************************************************************************)
(* C32.  P02 tracker ordering: within a poll window each event the tracker *)
(* processes has a (blockNumber, logIndex) not below that of the event it  *)
(* processed before, whatever the kinds; and an order once completed stays *)
(* in orders at completed.                                                 *)
(***************************************************************************)
C32_TrackerOrdering ==
    [][ /\ ( /\ tracker_last' # tracker_last
             /\ tracker_last # NoEvent
             /\ tracker_last' # NoEvent )
           => ~KeyLess(tracker_last', tracker_last)
        /\ \A order_id \in DOMAIN tracker_orders :
             tracker_orders[order_id].status = "completed"
             => /\ HasKey(tracker_orders', order_id)
                /\ tracker_orders'[order_id].status = "completed" ]_vars

\* an AssetReleased and, after it in the same block, a PaymentRequested of
\* the same order were processed in that order (they were fetched in the
\* other), and the order is completed
C32_Witness ==
    /\ Len(tracker_events) >= 2
    /\ LET n == Len(tracker_events)
       IN /\ tracker_events[n - 1].name = "AssetReleased"
          /\ tracker_events[n].name = "PaymentRequested"
          /\ tracker_events[n].block = tracker_events[n - 1].block
          /\ tracker_events[n].data = tracker_events[n - 1].data
          /\ tracker_orders[BytesHex(tracker_events[n].data.orderId)].status = "completed"

\* a _process_blocks call is under way, for the range
\* [last_block + 1, current_block]
WindowOpen ==
    pc \in {"filter_created", "handle_created", "filter_pulled", "handle_pulled",
            "filter_funded", "handle_funded"}

(***************************************************************************)
(* C33.  Scan windows are disjoint and contiguous: last_block never        *)
(* decreases; a range opens only with current_block above last_block and   *)
(* is [last_block + 1, current_block], which stays fixed while the range   *)
(* is open and bounds the blocks of every event fetched; when the range    *)
(* closes last_block becomes its upper end, so that the next range starts  *)
(* at the block after it; and last_block changes at no other step.         *)
(***************************************************************************)
C33_WindowsContiguous ==
    [][ /\ last_block' >= last_block
        /\ ( ~WindowOpen /\ WindowOpen' )
           => last_block' = last_block /\ current_block' > last_block
        /\ ( WindowOpen /\ WindowOpen' )
           => UNCHANGED << last_block, current_block >>
        /\ WindowOpen'
           => \A i \in 1..Len(queue') :
                /\ queue'[i].blockNumber >= last_block' + 1
                /\ queue'[i].blockNumber <= current_block'
        /\ ( WindowOpen /\ ~WindowOpen' ) => last_block' = current_block
        /\ ( ~WindowOpen /\ ~WindowOpen' ) => last_block' = last_block ]_vars

\* after the range [1, 1] the range [2, 3] is open, with events fetched
C33_Witness ==
    /\ WindowOpen
    /\ last_block = 1
    /\ current_block = 3
    /\ queue # << >>

(***************************************************************************)
(* C34.  Registry partition invariant: every record of                     *)
(* pending_settlements is at created or funds_pulled, every record of      *)
(* funded_settlements at funded or settled, and no id is a key of both.    *)
(* Fails: a SettlementCreated for an id that funded_settlements holds puts *)
(* a fresh record into pending_settlements next to it (C8).                *)
(***************************************************************************)
C34_RegistryPartition ==
    /\ \A id \in DOMAIN pending_settlements :
         pending_settlements[id].status \in {"created", "funds_pulled"}
    /\ \A id \in DOMAIN funded_settlements :
         funded_settlements[id].status \in {"funded", "settled"}
    /\ DOMAIN pending_settlements \cap DOMAIN funded_settlements = {}

(***************************************************************************)
(* C35.  Nonce uniqueness: no transaction is sent with the facilitator key *)
(* under a nonce that a transaction sent before and not yet mined carries. *)
(* Fails: get_nonce counts mined transactions only and nothing serialises  *)
(* the callers, so two requests of the server, a request and the           *)
(* Facilitator, or the Facilitator after a receipt wait that timed out,    *)
(* send under the same nonce.                                              *)
(***************************************************************************)
C35_NonceUnique ==
    \A i \in 1..Len(submitted) : submitted[i].nonce \notin submitted[i].unmined

(***************************************************************************)
(* C36.  Consistent reads in the P06 tracker: whatever /api/data answers,  *)
(* every settlement in it at status funded carries its funded_block, and   *)
(* answering leaves settlements and events as they were.                   *)
(* Fails: _handle_vault_funded sets the status and the funded_block in two *)
(* statements, and the Flask thread can read between them.                 *)
(***************************************************************************)
C36_ConsistentReads ==
    [][( api_data' # api_data )
       => /\ UNCHANGED << settlements, ui_events >>
          /\ api_data'.status = 200
             => \A id \in DOMAIN api_data'.body.settlements :
                  api_data'.body.settlements[id].status = "funded"
                  => "funded_block" \in DOMAIN api_data'.body.settlements[id]]_vars

\* the budget OTCClient.buy_asset computes by default for the asset amount of
\* the submission
DefaultBudget == quotes[AskedAmount].max_eurc_budget

(***************************************************************************)
(* C37.  Client/server buffer agreement: the budget OTCClient.buy_asset    *)
(* computes by default for a requirement (required_usdc / eur_usd_rate *   *)
(* 1.15, rate 1.10) is at least the minimum the server demands for it      *)
(* (required_usdc * 1.10 * 1.1), so that a submission offering the default *)
(* budget is never answered 'Insufficient payment'.                        *)
(* Fails: for 50 tokens the client offers 57 499 999 and the server        *)
(* demands 66 550 000.                                                     *)
(***************************************************************************)
C37_BufferAgreement ==
    ( /\ Submitted
      /\ Offered = DefaultBudget )
    => /\ ~IntLess(DefaultBudget, MinimumWithBuffer)
       /\ ~( /\ response.status = 400
             /\ response.body.error = "Insufficient payment" )

(***************************************************************************)
(* C38.  Spend never exceeds the buyer's authorization: every executeSwap  *)
(* the Facilitator submits for a settlement created through                *)
(* handle_payment_submitted is for a settlement whose proof the server     *)
(* accepted, and its maximum spend (the second argument) is at most the    *)
(* max_payment_amount that proof stated.                                   *)
(***************************************************************************)
C38_SpendWithinAuthorization ==
    \A i \in 1..Len(sent) :
        sent[i].fn = "executeSwap"
        => /\ HasKey(accepted, TxId(sent[i]))
           /\ ~IntLess(accepted[TxId(sent[i])], sent[i].args[2])

\* an executeSwap was submitted and mined for a settlement whose buyer had
\* stated more than the server's minimum: its maximum spend is the server's
\* max_eurc, below the buyer's amount
C38_Witness ==
    \E i \in 1..Len(sent) :
        /\ sent[i].fn = "executeSwap"
        /\ sent[i].result = "ok"
        /\ HasKey(accepted, TxId(sent[i]))
        /\ IntLess(sent[i].args[2], accepted[TxId(sent[i])])
        /\ sent[i].args[2] = active_settlements[TxId(sent[i])].max_eurc

=============================================================================
